---------------------------- MODULE Spec2Model ----------------------------
(***************************************************************************)
(* The YAK real-time kernel (src/yak-rtos) as a state machine.             *)
(*                                                                         *)
(* Memory is modelled at the level of the C code: TCBs live in the static  *)
(* array YKTasks and are linked through their next/prev fields; pointers   *)
(* are array indices and index 0 is the NULL pointer.  The build targets   *)
(* the 8086 in real mode, where address 0 is ordinary memory: a write      *)
(* through NULL lands in the cell `YKTasks[0]' of the model (the "NULL     *)
(* page"), which is also where YKInitialize stores its dummy TCB, the      *)
(* static pointer dummyTask being NULL.                                    *)
(*                                                                         *)
(* Control is modelled by one stack of frames per execution context (the   *)
(* context of main() is context 0, the context of a task is its TCB        *)
(* index).  A kernel primitive runs with interrupts disabled, so it is one *)
(* action up to the point where it re-enables interrupts or where the      *)
(* dispatcher switches to another context.                                 *)
(*                                                                         *)
(* The directory-checksum tool (src/multithread-crc/multi_check.c) is a    *)
(* second program with variables of its own: the kernel's actions leave    *)
(* them unchanged and the tool's actions leave the kernel's unchanged.     *)
(***************************************************************************)
EXTENDS Integers, Sequences, FiniteSets, TLC

(***************************************************************************)
(* Bounds of the model.                                                    *)
(***************************************************************************)
\* TCBs of the pool besides the idle task's (the code has MAX_TASKS = 64)
NumUserTasks == 3
\* user tasks of the specification with every primitive
MainTasks == 2
\* semaphores created (the pool holds MAX_SEMAPHORES = 64)
NumSems == 1
\* largest capacity the queue is created with
MaxQSize == 2
\* largest count passed to YKDelayTask
MaxDelay == 3
\* largest value a semaphore is created with or posted to
MaxSemValue == 1
\* ticks served
MaxTick == 3
\* context switches performed
MaxCtxSw == 5
\* depth of interrupt nesting
MaxNest == 1
\* depth of interrupt nesting where nested interrupts are followed
DeepNest == 2
\* context switches performed where the order of pending is followed
MoreCtxSw == 6
\* largest value of a semaphore where runs of posts are followed, and the
\* longest run recorded
MaxRun == 3
\* priorities of the tasks A and B of the preemption scenario
PrioA == 5
PrioB == 10
\* context switches performed where critical sections are followed
FewCtxSw == 3
\* ticks served before the tick counter is at its largest value
LateTicks == 40
\* critical sections a task opens inside one another
MutexDepth == 2
\* entries of the application's message array (MSGARRAYSIZE of application.h)
MsgArraySize == 2
\* multi_check.c: slots of node_buf (N_BUF is 1000 in the source)
N_BUF == 2
\* multi_check.c: worker threads (n_threads of the command line)
NumWorkers == 2
\* multi_check.c: files of the directory at most
MaxFiles == 3

(***************************************************************************)
(* Program constants.                                                      *)
(***************************************************************************)
NULL == 0
IDLE_TASK_ID == 0
LOWEST_TASK_PRIORITY == 100
\* int and unsigned are 16 bits wide on the target
WordMod == 65536
\* the largest value of an int of the same width
IntMax == 32767
IntMin == -IntMax - 1

\* index of the idle task's TCB: allocateTCB hands out YKTasks[0] first, and
\* index 0 of the model being NULL, YKTasks[i] of the code is index i+1 here
IdleTCB == 1
TCBs == 1..(NumUserTasks + 1)
Ptrs == 0..(NumUserTasks + 1)
Sems == 1..NumSems
\* the application creates one queue, MsgQPtr, which the tick handler posts to
MsgQ == 1
Queues == {MsgQ}
\* priorities the user tasks are created with: 5, 10, 15, ...
UserPriorities == {5 * i : i \in 1..NumUserTasks}
MainPriorities == {5 * i : i \in 1..MainTasks}
\* messages: 0 is the content of a slot never written, 1..MsgArraySize are
\* the addresses &MsgArray[index]
Msgs == 1..MsgArraySize

VARIABLES
    YKTasks,              \* TCB memory: [Ptrs -> TCB], cell 0 is the NULL page
    numTasksCreated,      \* static of allocateTCB
    YKCurrentTask,
    YKReadyHead,
    YKReadyTail,
    YKDelayedHead,
    YKDelayedTail,
    YKSemaphores,         \* [Sems -> [value, pendHead]]
    numSemaphoresCreated, \* static of allocateSemaphore
    YKQueues,             \* [Queues -> YKQ]
    numQueuesCreated,     \* static of allocateQueue
    YKCtxSwCount,
    YKTickNum,
    YKInterruptNestLevel,
    YKStartedFlag,
    IFlag,                \* the processor's interrupt-enable flag (IF)
    stack,                \* [Ptrs -> Seq(frame)]: control stack of each context
    index,                \* static of YKTickHandler
    due,                  \* history: ticks left of each task's delay
    qlog,                 \* history: the last queue operation that returned
    slog,                 \* history: the run of semaphore posts and pends
    lim,                  \* the limits of the behaviour, fixed by Init
    node_buf,             \* multi_check.c: buffer of nodes needing a crc
    next_node,            \* multi_check.c: index of the next node to take
    next_post,            \* multi_check.c: index of the next slot to post to
    terminate,            \* multi_check.c: set to terminate the workers
    mutex,                \* multi_check.c: the thread holding the lock
    cv,                   \* multi_check.c: the workers blocked on the condition
    pc,                   \* multi_check.c: where each thread is
    node,                 \* multi_check.c: the local n of each thread
    taken                 \* history: the workers get_node returned each node to

\* the state of the directory-checksum tool
toolVars == <<node_buf, next_node, next_post, terminate, mutex, cv, pc, node,
              taken>>

vars == <<YKTasks, numTasksCreated, YKCurrentTask, YKReadyHead, YKReadyTail,
          YKDelayedHead, YKDelayedTail, YKSemaphores, numSemaphoresCreated,
          YKQueues, numQueuesCreated, YKCtxSwCount, YKTickNum,
          YKInterruptNestLevel, YKStartedFlag, IFlag, stack, index, due, qlog,
          slog, lim, toolVars>>

(***************************************************************************)
(* multi_check.c: the directory-checksum tool.  Thread 0 is the main       *)
(* thread, threads 1..NumWorkers are the workers; the nodes are numbered   *)
(* 1..MaxFiles in the order the main thread reads the directory, and 0 is  *)
(* the NULL node.                                                          *)
(***************************************************************************)
MainThread == 0
Workers == 1..NumWorkers
Threads == {MainThread} \cup Workers
Nodes == 1..MaxFiles
Slots == 0..(N_BUF - 1)
\* value of mutex when no thread holds the lock
Unlocked == -1

\* the globals as the loader zeroes them, with the worker threads created
\* and none of them scheduled yet
multi_check_Start ==
    /\ node_buf = [i \in Slots |-> NULL]
    /\ next_node = 0
    /\ next_post = 0
    /\ terminate = 0
    /\ mutex = Unlocked
    /\ cv = {}
    /\ pc = [t \in Threads |-> IF t = MainThread THEN "readdir" ELSE "get_node"]
    /\ node = [t \in Threads |-> NULL]
    /\ taken = [n \in Nodes |-> << >>]

(***************************************************************************)
(* Kernel data.  The helper functions of yak_help.c read and write several *)
(* globals; they are operators on a record k holding them, so that a       *)
(* primitive is the composition of its helper calls.                       *)
(***************************************************************************)
TCB(id, dc, pr, nx, pv) ==
    [taskID |-> id, delayCount |-> dc, priority |-> pr, next |-> nx, prev |-> pv]

YKSEM(v, ph) == [value |-> v, pendHead |-> ph]

\* start, end, nextSlot and nextMsg point into the caller's array buf: they
\* are slot numbers, 1 the first slot, and 0 the NULL pointer
YKQ(n, max, start, end, slot, msg, ph, buf) ==
    [numEntries |-> n, maxEntries |-> max, start |-> start, end |-> end,
     nextSlot |-> slot, nextMsg |-> msg, pendHead |-> ph, buf |-> buf]

\* nw counts the writes through a NULL pointer of the helper calls made
\* on the record
K == [tcb |-> YKTasks, rh |-> YKReadyHead, rt |-> YKReadyTail,
      dh |-> YKDelayedHead, dt |-> YKDelayedTail,
      sem |-> YKSemaphores, que |-> YKQueues, nw |-> 0]

Commit(k) ==
    /\ YKTasks' = k.tcb
    /\ YKReadyHead' = k.rh
    /\ YKReadyTail' = k.rt
    /\ YKDelayedHead' = k.dh
    /\ YKDelayedTail' = k.dt
    /\ YKSemaphores' = k.sem
    /\ YKQueues' = k.que

\* p->f = v; with p = NULL the write goes to the NULL page
Wr(k, p, f, v) ==
    [k EXCEPT !.tcb[p][f] = v, !.nw = IF p = NULL THEN @ + 1 ELSE @]

(***************************************************************************)
(* yak_help.c: the list machinery.                                         *)
(***************************************************************************)
\* removeReady that leaves the task in the ready list
removeReady_Keep(k, remTask) == k

\* removeReady that takes the head for the only element of the list
removeReady_Empty(k, remTask) ==
    IF k.tcb[remTask].taskID = IDLE_TASK_ID THEN k
    ELSE IF k.rh = NULL THEN k
    ELSE IF k.rh = remTask THEN
        LET k1 == [k EXCEPT !.rh = NULL, !.rt = NULL]
            k2 == Wr(k1, remTask, "prev", NULL)
        IN  Wr(k2, remTask, "next", NULL)
    ELSE IF k.rt = remTask THEN
        LET k1 == [k EXCEPT !.rt = k.tcb[remTask].prev]
            k2 == Wr(k1, k1.tcb[remTask].prev, "next", NULL)
        IN  Wr(k2, remTask, "prev", NULL)
    ELSE
        LET k1 == Wr(k, k.tcb[remTask].next, "prev", k.tcb[remTask].prev)
            k2 == Wr(k1, k1.tcb[remTask].prev, "next", k1.tcb[remTask].next)
            k3 == Wr(k2, remTask, "next", NULL)
        IN  Wr(k3, remTask, "prev", NULL)

\* insertReady that puts every task at the tail, whatever its priority
insertReady_Append(k, newTCB) ==
    IF newTCB = NULL THEN k
    ELSE IF k.rh = NULL THEN
        LET k1 == [k EXCEPT !.rh = newTCB, !.rt = newTCB]
            k2 == Wr(k1, newTCB, "prev", NULL)
        IN  Wr(k2, newTCB, "next", NULL)
    ELSE
        LET k1 == Wr(k, k.rt, "next", newTCB)
            k2 == Wr(k1, newTCB, "prev", k1.rt)
            k3 == Wr(k2, newTCB, "next", NULL)
        IN  [k3 EXCEPT !.rt = newTCB]

\* the loop of insertReady going one TCB too far
RECURSIVE ReadyWalk_Past(_, _, _, _)
ReadyWalk_Past(tcb, cur, prio, fuel) ==
    IF fuel > 0 /\ tcb[cur].priority < prio
    THEN ReadyWalk_Past(tcb, tcb[cur].next, prio, fuel - 1)
    ELSE tcb[cur].next

\* the loop of insertReady, case 2.3: the first TCB from cur on whose
\* priority is not below prio (fuel bounds the walk of a malformed list)
RECURSIVE ReadyWalk(_, _, _, _)
ReadyWalk(tcb, cur, prio, fuel) ==
    IF fuel > 0 /\ tcb[cur].priority < prio
    THEN ReadyWalk(tcb, tcb[cur].next, prio, fuel - 1)
    ELSE cur

insertReady(k, newTCB) ==
    IF newTCB = NULL THEN k
    ELSE IF k.rh = NULL THEN
        LET k1 == [k EXCEPT !.rh = newTCB, !.rt = newTCB]
            k2 == Wr(k1, newTCB, "prev", NULL)
        IN  Wr(k2, newTCB, "next", NULL)
    ELSE IF k.tcb[newTCB].priority < k.tcb[k.rh].priority THEN
        LET k1 == Wr(k, k.rh, "prev", newTCB)
            k2 == Wr(k1, newTCB, "next", k1.rh)
            k3 == Wr(k2, newTCB, "prev", NULL)
        IN  [k3 EXCEPT !.rh = newTCB]
    ELSE IF k.tcb[newTCB].priority > k.tcb[k.rt].priority THEN
        LET k1 == Wr(k, k.rt, "next", newTCB)
            k2 == Wr(k1, newTCB, "prev", k1.rt)
            k3 == Wr(k2, newTCB, "next", NULL)
        IN  [k3 EXCEPT !.rt = newTCB]
    ELSE
        LET curTCB == ReadyWalk(k.tcb, k.rh, k.tcb[newTCB].priority,
                                Cardinality(Ptrs))
            k1 == Wr(k, k.tcb[curTCB].prev, "next", newTCB)
            k2 == Wr(k1, newTCB, "prev", k1.tcb[curTCB].prev)
            k3 == Wr(k2, curTCB, "prev", newTCB)
        IN  Wr(k3, newTCB, "next", curTCB)

removeReady(k, remTask) ==
    IF k.tcb[remTask].taskID = IDLE_TASK_ID THEN k
    ELSE IF k.rh = NULL THEN k
    ELSE IF k.rh = remTask /\ k.rt = remTask THEN
        LET k1 == [k EXCEPT !.rh = NULL, !.rt = NULL]
            k2 == Wr(k1, remTask, "prev", NULL)
        IN  Wr(k2, remTask, "next", NULL)
    ELSE IF k.rh = remTask THEN
        LET k1 == [k EXCEPT !.rh = k.tcb[remTask].next]
            k2 == Wr(k1, k1.tcb[remTask].next, "prev", NULL)
        IN  Wr(k2, remTask, "next", NULL)
    ELSE IF k.rt = remTask THEN
        LET k1 == [k EXCEPT !.rt = k.tcb[remTask].prev]
            k2 == Wr(k1, k1.tcb[remTask].prev, "next", NULL)
        IN  Wr(k2, remTask, "prev", NULL)
    ELSE
        LET k1 == Wr(k, k.tcb[remTask].next, "prev", k.tcb[remTask].prev)
            k2 == Wr(k1, k1.tcb[remTask].prev, "next", k1.tcb[remTask].next)
            k3 == Wr(k2, remTask, "next", NULL)
        IN  Wr(k3, remTask, "prev", NULL)

\* the loop of insertDelayed keeping the absolute delay: the delay counts of
\* the tasks it passes are not subtracted
RECURSIVE DelayedWalk_NoDelta(_, _, _, _)
DelayedWalk_NoDelta(tcb, cur, dc, fuel) ==
    IF fuel > 0 /\ dc >= tcb[cur].delayCount /\ cur # NULL
    THEN DelayedWalk_NoDelta(tcb, tcb[cur].next, dc, fuel - 1)
    ELSE <<cur, dc>>

\* the loop of insertDelayed, case 2.3, on the pair (curTCB, delayCount of
\* newTCB).  The code tests newTCB->delayCount >= curTCB->delayCount before
\* curTCB != NULL, so at the end of the list it reads the delay count of the
\* NULL page; whatever it reads, the second test ends the loop.
RECURSIVE DelayedWalk(_, _, _, _)
DelayedWalk(tcb, cur, dc, fuel) ==
    IF fuel > 0 /\ dc >= tcb[cur].delayCount /\ cur # NULL
    THEN DelayedWalk(tcb, tcb[cur].next, dc - tcb[cur].delayCount, fuel - 1)
    ELSE <<cur, dc>>

insertDelayed(k, newTCB) ==
    IF newTCB = NULL THEN k
    ELSE IF k.tcb[newTCB].taskID = IDLE_TASK_ID THEN k
    ELSE IF k.dh = NULL THEN
        LET k1 == [k EXCEPT !.dh = newTCB, !.dt = newTCB]
            k2 == Wr(k1, newTCB, "prev", NULL)
        IN  Wr(k2, newTCB, "next", NULL)
    ELSE IF k.tcb[newTCB].delayCount < k.tcb[k.dh].delayCount THEN
        LET k1 == Wr(k, k.dh, "delayCount",
                     k.tcb[k.dh].delayCount - k.tcb[newTCB].delayCount)
            k2 == Wr(k1, k1.dh, "prev", newTCB)
            k3 == Wr(k2, newTCB, "next", k2.dh)
            k4 == Wr(k3, newTCB, "prev", NULL)
        IN  [k4 EXCEPT !.dh = newTCB]
    ELSE
        LET w      == DelayedWalk(k.tcb, k.dh, k.tcb[newTCB].delayCount,
                                  Cardinality(Ptrs))
            curTCB == w[1]
            k0     == Wr(k, newTCB, "delayCount", w[2])
        IN  IF curTCB = NULL THEN
                LET k1 == Wr(k0, k0.dt, "next", newTCB)
                    k2 == Wr(k1, newTCB, "prev", k1.dt)
                    k3 == Wr(k2, newTCB, "next", NULL)
                IN  [k3 EXCEPT !.dt = newTCB]
            ELSE
                LET k1 == Wr(k0, k0.tcb[curTCB].prev, "next", newTCB)
                    k2 == Wr(k1, newTCB, "prev", k1.tcb[curTCB].prev)
                    k3 == Wr(k2, curTCB, "prev", newTCB)
                    k4 == Wr(k3, newTCB, "next", curTCB)
                IN  Wr(k4, k4.tcb[newTCB].next, "delayCount",
                       k4.tcb[k4.tcb[newTCB].next].delayCount
                         - k4.tcb[newTCB].delayCount)

\* removeDelayed returns a pointer and changes the lists: <<tmp, k>>.  When
\* the head is the only element, YKDelayedHead->prev = NULL is a write
\* through NULL: it stores NULL in the prev field of the NULL page.
removeDelayed(k) ==
    IF k.dh = NULL THEN <<NULL, k>>
    ELSE IF k.tcb[k.dh].delayCount = 0 THEN
        LET tmp == k.dh
            k1  == [k EXCEPT !.dh = k.tcb[k.dh].next]
            k2  == Wr(k1, k1.dh, "prev", NULL)
        IN  <<tmp, Wr(k2, tmp, "next", NULL)>>
    ELSE <<NULL, k>>

\* the loop of insertPendSem and insertPendQ, case 2.2
RECURSIVE PendWalk(_, _, _, _)
PendWalk(tcb, cur, prio, fuel) ==
    IF fuel > 0 /\ tcb[cur].priority < prio /\ tcb[cur].next # NULL
    THEN PendWalk(tcb, tcb[cur].next, prio, fuel - 1)
    ELSE cur

\* insertPendSem and insertPendQ that link the task into no pending list
insertPend_Drop(k, newTCB, kind, i) == k

\* insertPendSem and insertPendQ are the same code on the pendHead of a
\* semaphore or of a queue: kind is "sem" or "que", i the index in the pool
insertPend(k, newTCB, kind, i) ==
    LET pendHead == k[kind][i].pendHead
    IN  IF newTCB = NULL THEN k
        ELSE IF pendHead = NULL THEN
            LET k1 == [k EXCEPT ![kind][i].pendHead = newTCB]
                k2 == Wr(k1, newTCB, "prev", NULL)
            IN  Wr(k2, newTCB, "next", NULL)
        ELSE IF k.tcb[newTCB].priority < k.tcb[pendHead].priority THEN
            LET k1 == Wr(k, pendHead, "prev", newTCB)
                k2 == Wr(k1, newTCB, "next", pendHead)
                k3 == Wr(k2, newTCB, "prev", NULL)
            IN  [k3 EXCEPT ![kind][i].pendHead = newTCB]
        ELSE
            LET curTCB == PendWalk(k.tcb, pendHead, k.tcb[newTCB].priority,
                                   Cardinality(Ptrs))
            IN  IF /\ k.tcb[curTCB].next = NULL
                   /\ k.tcb[newTCB].priority > k.tcb[curTCB].priority
                THEN
                    LET k1 == Wr(k, curTCB, "next", newTCB)
                        k2 == Wr(k1, newTCB, "prev", curTCB)
                    IN  Wr(k2, newTCB, "next", NULL)
                ELSE
                    LET k1 == Wr(k, k.tcb[curTCB].prev, "next", newTCB)
                        k2 == Wr(k1, newTCB, "prev", k1.tcb[curTCB].prev)
                        k3 == Wr(k2, curTCB, "prev", newTCB)
                    IN  Wr(k3, newTCB, "next", curTCB)

insertPendSem(k, newTCB, s) == insertPend(k, newTCB, "sem", s)

insertPendQ(k, newTCB, q) == insertPend(k, newTCB, "que", q)

\* removePendSem and removePendQ that leave the prev field of the new head
\* as it was
removePend_KeepPrev(k, kind, i) ==
    IF k[kind][i].pendHead = NULL THEN <<NULL, k>>
    ELSE
        LET tmp == k[kind][i].pendHead
            k1  == [k EXCEPT ![kind][i].pendHead = k.tcb[tmp].next]
        IN  <<tmp, Wr(k1, tmp, "next", NULL)>>

\* removePendSem and removePendQ: <<tmp, k>>.  With a single waiter,
\* ptr->pendHead->prev = NULL is a write through NULL, as in removeDelayed.
removePend(k, kind, i) ==
    IF k[kind][i].pendHead = NULL THEN <<NULL, k>>
    ELSE
        LET tmp == k[kind][i].pendHead
            k1  == [k EXCEPT ![kind][i].pendHead = k.tcb[tmp].next]
            k2  == Wr(k1, k1[kind][i].pendHead, "prev", NULL)
        IN  <<tmp, Wr(k2, tmp, "next", NULL)>>

\* removePendSem that finds no pending task
removePendSem_None(k, s) == <<NULL, k>>

removePendSem(k, s) == removePend(k, "sem", s)

removePendQ(k, q) == removePend(k, "que", q)

(***************************************************************************)
(* Control.  A frame is [k, a, i]: k the place the context is at, a its    *)
(* argument, i the interrupt status (iStatus) the primitive saved.         *)
(*   "main"  main() before YKRun                                           *)
(*   "task"  task code, outside every kernel primitive                     *)
(*   "sched" in YKDelayTask, YKNewTask or YKRun, after the mutex was left  *)
(*           and before the call of YKScheduler                            *)
(*   "ret"   switched out in the YKScheduler a primitive called; what is   *)
(*           left is to restore the interrupt status and return            *)
(*   "qread" switched out in the YKScheduler that YKQPend called; what is  *)
(*           left is to read the message of queue a                        *)
(*   "isr"   in an interrupt service routine, before (a = 0) or after      *)
(*           (a = 1) its handler                                           *)
(*   "iret"  switched out in the YKScheduler that YKExitISR called         *)
(*   "mutex" in task code between a call of YKEnterMutex, which returned i, *)
(*           and the call of YKExitMutex that ends the critical section    *)
(***************************************************************************)
Frame(kind, a, i) == [k |-> kind, a |-> a, i |-> i]

Top(t) == stack[t][Len(stack[t])]

Pop(t) == SubSeq(stack[t], 1, Len(stack[t]) - 1)

Push(t, f) == Append(stack[t], f)

Replace(t, f) == Append(Pop(t), f)

\* the running context is in task code (of a user task when user is TRUE),
\* outside or inside a critical section of its own
InTask(user) ==
    /\ YKStartedFlag = 1
    /\ YKCurrentTask # NULL
    /\ Top(YKCurrentTask).k \in {"task", "mutex"}
    /\ user => YKTasks[YKCurrentTask].taskID # IDLE_TASK_ID

InMain == YKCurrentTask = NULL /\ Top(NULL).k = "main"

\* the running context is in the handler part of an ISR
InIsr == Len(stack[YKCurrentTask]) > 0 /\ Top(YKCurrentTask) = Frame("isr", 0, 0)

(***************************************************************************)
(* yak_c.c: scheduler and dispatcher.                                      *)
(***************************************************************************)
\* a scheduler that never dispatches
Switch_Never(k) == FALSE

\* a scheduler that dispatches whatever the ready-list head is
Switch_Always(k) == TRUE

\* the test of YKScheduler
Switch(k) == k.tcb[k.rh].taskID # k.tcb[YKCurrentTask].taskID

\* YKDispatcher: the running context is left with the control stack `saved',
\* the ready-list head becomes the current task and continues where it was
\* switched out, with the flags it had there: interrupts disabled (it was in
\* YKScheduler), or enabled if it never ran (DEFAULT_FLAGS)
YKDispatcher(k, saved) ==
    /\ stack' = [stack EXCEPT ![YKCurrentTask] = saved]
    /\ YKCurrentTask' = k.rh
    /\ IFlag' = IF stack[k.rh] = <<Frame("task", 0, 0)>> THEN 1 ELSE 0

\* a scheduler that dispatches without counting the context switch
Schedule_NoCount(k, saved, stayed, stayIF) ==
    IF Switch(k)
    THEN /\ YKCtxSwCount < lim.sw
         /\ YKCtxSwCount' = YKCtxSwCount
         /\ YKDispatcher(k, saved)
    ELSE /\ stack' = [stack EXCEPT ![YKCurrentTask] = stayed]
         /\ IFlag' = stayIF
         /\ UNCHANGED <<YKCtxSwCount, YKCurrentTask>>

\* a call of YKScheduler in a primitive: on a switch the context is saved
\* as `saved'; otherwise the primitive runs to the point where its control
\* stack is `stayed' and the interrupt flag is stayIF
Schedule(k, saved, stayed, stayIF) ==
    IF Switch(k)
    THEN /\ YKCtxSwCount < lim.sw
         /\ YKCtxSwCount' = YKCtxSwCount + 1
         /\ YKDispatcher(k, saved)
    ELSE /\ stack' = [stack EXCEPT ![YKCurrentTask] = stayed]
         /\ IFlag' = stayIF
         /\ UNCHANGED <<YKCtxSwCount, YKCurrentTask>>

\* the primitive returns without having called the scheduler
NoSchedule(stayed, stayIF) ==
    /\ stack' = [stack EXCEPT ![YKCurrentTask] = stayed]
    /\ IFlag' = stayIF
    /\ UNCHANGED <<YKCtxSwCount, YKCurrentTask>>

\* the step from a "sched" frame: YKScheduler called at the end of
\* YKDelayTask, YKNewTask or YKRun, with the interrupt status of that place
YKScheduler ==
    /\ Len(stack[YKCurrentTask]) > 0
    /\ Top(YKCurrentTask).k = "sched"
    /\ Schedule(K, Replace(YKCurrentTask, Frame("ret", 0, IFlag)),
                Pop(YKCurrentTask), IFlag)
    /\ UNCHANGED <<YKTasks, numTasksCreated, YKReadyHead, YKReadyTail,
                   YKDelayedHead, YKDelayedTail, YKSemaphores,
                   numSemaphoresCreated, YKQueues, numQueuesCreated,
                   YKTickNum, YKInterruptNestLevel, YKStartedFlag, index,
                   due, qlog,
                   lim, toolVars, slog>>

\* a context switched out in YKScheduler is running again: the scheduler
\* and the primitive that called it restore the interrupt status and return
Return ==
    /\ Len(stack[YKCurrentTask]) > 0
    /\ Top(YKCurrentTask).k = "ret"
    /\ stack' = [stack EXCEPT ![YKCurrentTask] = Pop(YKCurrentTask)]
    /\ IFlag' = Top(YKCurrentTask).i
    /\ UNCHANGED <<YKTasks, numTasksCreated, YKCurrentTask, YKReadyHead,
                   YKReadyTail, YKDelayedHead, YKDelayedTail, YKSemaphores,
                   numSemaphoresCreated, YKQueues, numQueuesCreated,
                   YKCtxSwCount, YKTickNum, YKInterruptNestLevel,
                   YKStartedFlag, index, due, qlog,
                   lim, toolVars, slog>>

(***************************************************************************)
(* kernel.h: YKEnterMutex and YKExitMutex, called by task code.            *)
(* YKEnterMutex disables interrupts and returns the interrupt status it    *)
(* found; YKExitMutex, which has no parameter, enables interrupts.         *)
(***************************************************************************)
\* critical sections the current task is in
MutexFrames(t) ==
    Cardinality({i \in 1..Len(stack[t]) : stack[t][i].k = "mutex"})

YKEnterMutex ==
    /\ InTask(TRUE)
    /\ MutexFrames(YKCurrentTask) < MutexDepth
    /\ stack' = [stack EXCEPT
                   ![YKCurrentTask] = Push(YKCurrentTask, Frame("mutex", 0, IFlag))]
    /\ IFlag' = 0
    /\ UNCHANGED <<YKTasks, numTasksCreated, YKCurrentTask, YKReadyHead,
                   YKReadyTail, YKDelayedHead, YKDelayedTail, YKSemaphores,
                   numSemaphoresCreated, YKQueues, numQueuesCreated,
                   YKCtxSwCount, YKTickNum, YKInterruptNestLevel,
                   YKStartedFlag, index, due, qlog, lim, toolVars, slog>>

YKExitMutex ==
    /\ InTask(TRUE)
    /\ Top(YKCurrentTask).k = "mutex"
    /\ stack' = [stack EXCEPT ![YKCurrentTask] = Pop(YKCurrentTask)]
    /\ IFlag' = 1
    /\ UNCHANGED <<YKTasks, numTasksCreated, YKCurrentTask, YKReadyHead,
                   YKReadyTail, YKDelayedHead, YKDelayedTail, YKSemaphores,
                   numSemaphoresCreated, YKQueues, numQueuesCreated,
                   YKCtxSwCount, YKTickNum, YKInterruptNestLevel,
                   YKStartedFlag, index, due, qlog, lim, toolVars, slog>>

\* YKEnterMutex(); YKExitMutex(); with nothing in between: no interrupt is
\* taken between the two calls, the pair is one step
MutexPair ==
    /\ InTask(TRUE)
    /\ IFlag' = 1
    /\ UNCHANGED <<YKTasks, numTasksCreated, YKCurrentTask, YKReadyHead,
                   YKReadyTail, YKDelayedHead, YKDelayedTail, YKSemaphores,
                   numSemaphoresCreated, YKQueues, numQueuesCreated,
                   YKCtxSwCount, YKTickNum, YKInterruptNestLevel,
                   YKStartedFlag, stack, index, due, qlog, lim, toolVars, slog>>

(***************************************************************************)
(* yak_c.c: tasks.                                                         *)
(***************************************************************************)
UsedPriorities == {YKTasks[t].priority : t \in 1..numTasksCreated}

\* YKNewTask that does not call the scheduler
NewTask_NoScheduler(p) ==
    /\ InMain \/ InTask(TRUE)
    /\ numTasksCreated <= NumUserTasks
    /\ LET newTCBPtr == numTasksCreated + 1
           k1 == [K EXCEPT !.tcb[newTCBPtr] =
                               TCB(numTasksCreated, 0, p, NULL, NULL)]
           k2 == insertReady(k1, newTCBPtr)
       IN  /\ Commit(k2)
           /\ numTasksCreated' = numTasksCreated + 1
           /\ stack' = [stack EXCEPT ![newTCBPtr] = <<Frame("task", 0, 0)>>]
    /\ UNCHANGED <<YKCurrentTask, numSemaphoresCreated, numQueuesCreated,
                   YKCtxSwCount, YKTickNum, YKInterruptNestLevel,
                   YKStartedFlag, IFlag, index, due, qlog, lim, toolVars, slog>>

\* YKNewTask(taskCode, taskStack, p) from main() or from a task, whatever
\* the priority p
NewTask(p) ==
    /\ InMain \/ InTask(TRUE)
    /\ numTasksCreated <= NumUserTasks
    /\ LET newTCBPtr == numTasksCreated + 1
           k1 == [K EXCEPT !.tcb[newTCBPtr] =
                               TCB(numTasksCreated, 0, p, NULL, NULL)]
           k2 == insertReady(k1, newTCBPtr)
       IN  /\ Commit(k2)
           /\ numTasksCreated' = numTasksCreated + 1
           /\ stack' = [stack EXCEPT
                          ![newTCBPtr] = <<Frame("task", 0, 0)>>,
                          ![YKCurrentTask] =
                              IF YKStartedFlag = 1
                              THEN Push(YKCurrentTask, Frame("sched", 0, 0))
                              ELSE @]
    /\ UNCHANGED <<YKCurrentTask, numSemaphoresCreated, numQueuesCreated,
                   YKCtxSwCount, YKTickNum, YKInterruptNestLevel,
                   YKStartedFlag, IFlag, index, due, qlog,
                   lim, toolVars, slog>>

\* YKNewTask called by an application that gives every task a priority of
\* its own
YKNewTask(p) ==
    /\ p \notin UsedPriorities
    /\ NewTask(p)

\* YKRun: the started flag is set and interrupts are enabled; the call of
\* YKScheduler follows.  The application has created its queue.
YKRun ==
    /\ InMain
    /\ numQueuesCreated = 1
    /\ YKStartedFlag' = 1
    /\ IFlag' = 1
    /\ stack' = [stack EXCEPT ![NULL] = Replace(NULL, Frame("sched", 0, 0))]
    /\ UNCHANGED <<YKTasks, numTasksCreated, YKCurrentTask, YKReadyHead,
                   YKReadyTail, YKDelayedHead, YKDelayedTail, YKSemaphores,
                   numSemaphoresCreated, YKQueues, numQueuesCreated,
                   YKCtxSwCount, YKTickNum, YKInterruptNestLevel, index,
                   due, qlog,
                   lim, toolVars, slog>>

\* YKDelayTask(count) up to the call of YKScheduler
YKDelayTask(count) ==
    /\ InTask(~lim.idle)
    /\ LET k1 == removeReady(K, YKCurrentTask)
           k2 == Wr(k1, YKCurrentTask, "delayCount", count)
           k3 == insertDelayed(k2, YKCurrentTask)
       IN  Commit(k3)
    /\ stack' = [stack EXCEPT
                   ![YKCurrentTask] = Push(YKCurrentTask, Frame("sched", 0, 0))]
    /\ due' = [due EXCEPT ![YKCurrentTask] = count]
    /\ UNCHANGED <<numTasksCreated, YKCurrentTask, numSemaphoresCreated,
                   numQueuesCreated, YKCtxSwCount, YKTickNum,
                   YKInterruptNestLevel, YKStartedFlag, IFlag, index, qlog,
                   lim, toolVars, slog>>

(***************************************************************************)
(* History of the queue operations, kept when qlog.on: the last operation  *)
(* that returned (op, the message posted or returned, the value returned   *)
(* by YKQPost, the occupancy and the presence of waiters before it), and   *)
(* fifo, the messages YKQPost accepted and YKQPend has not returned yet.   *)
(* For a message YKQPend returns, exp is the oldest message of fifo and    *)
(* fresh tells whether the message is in fifo.  pop and pocc are op and    *)
(* occ of the operation before the last.                                   *)
(***************************************************************************)
NoLog(on) == [on |-> on, op |-> "none", msg |-> 0, ret |-> 0, occ |-> 0,
              wait |-> FALSE, exp |-> 0, fresh |-> TRUE, fifo |-> << >>,
              pop |-> "none", pocc |-> 0]

\* seq without the first occurrence of x
RECURSIVE Without(_, _)
Without(seq, x) ==
    IF seq = << >> THEN << >>
    ELSE IF Head(seq) = x THEN Tail(seq)
    ELSE <<Head(seq)>> \o Without(Tail(seq), x)

LogPost(q0, msg, ret) ==
    IF qlog.on
    THEN [qlog EXCEPT !.op = "post", !.msg = msg, !.ret = ret,
                      !.occ = q0.numEntries, !.wait = (q0.pendHead # NULL),
                      !.exp = 0, !.pop = qlog.op, !.pocc = qlog.occ,
                      !.fifo = IF ret = 1 THEN Append(@, msg) ELSE @]
    ELSE qlog

LogPend(q0, msg) ==
    IF qlog.on
    THEN [qlog EXCEPT !.op = "pend", !.msg = msg, !.ret = 0,
                      !.occ = q0.numEntries, !.wait = (q0.pendHead # NULL),
                      !.exp = IF qlog.fifo = << >> THEN 0 ELSE Head(qlog.fifo),
                      !.pop = qlog.op, !.pocc = qlog.occ,
                      !.fresh = \E i \in 1..Len(qlog.fifo) : qlog.fifo[i] = msg,
                      !.fifo = Without(@, msg)]
    ELSE qlog

(***************************************************************************)
(* History of the semaphore operations, kept when slog.on: posts is the    *)
(* number of posts in a row that found no waiting task, pends the number   *)
(* of pends in a row, after these posts, that returned without blocking,   *)
(* isr the number of these posts made in an ISR.  The counters stop at     *)
(* MaxRun.                                                                 *)
(***************************************************************************)
NoSemLog(on) == [on |-> on, posts |-> 0, pends |-> 0, isr |-> 0]

Upto(n) == IF n < MaxRun THEN n + 1 ELSE n

SemLogPost(sem0) ==
    IF ~slog.on THEN slog
    ELSE IF sem0.value < 0 THEN NoSemLog(TRUE)
    ELSE LET inIsr == IF YKInterruptNestLevel > 0 THEN 1 ELSE 0
         IN  IF slog.pends > 0
             THEN [slog EXCEPT !.posts = 1, !.pends = 0, !.isr = inIsr]
             ELSE [slog EXCEPT !.posts = Upto(@),
                               !.isr = IF inIsr = 1 THEN Upto(@) ELSE @]

SemLogPend(sem0) ==
    IF ~slog.on THEN slog
    ELSE IF sem0.value <= 0 THEN NoSemLog(TRUE)
    ELSE [slog EXCEPT !.pends = Upto(@)]

(***************************************************************************)
(* yak_c.c: semaphores.                                                    *)
(***************************************************************************)
YKSemCreate(initialValue) ==
    /\ InMain
    /\ numSemaphoresCreated < NumSems
    /\ LET newSem == numSemaphoresCreated + 1
       IN  YKSemaphores' = [YKSemaphores EXCEPT
                              ![newSem] = YKSEM(initialValue, NULL)]
    /\ numSemaphoresCreated' = numSemaphoresCreated + 1
    /\ UNCHANGED <<YKTasks, numTasksCreated, YKCurrentTask, YKReadyHead,
                   YKReadyTail, YKDelayedHead, YKDelayedTail, YKQueues,
                   numQueuesCreated, YKCtxSwCount, YKTickNum,
                   YKInterruptNestLevel, YKStartedFlag, IFlag, stack, index,
                   due, qlog,
                   lim, toolVars, slog>>

YKSemPend(s) ==
    /\ InTask(~lim.idle)
    /\ s <= numSemaphoresCreated
    /\ YKSemaphores[s].value > lim.low
    /\ LET oldVal == YKSemaphores[s].value
           k1 == [K EXCEPT !.sem[s].value = oldVal - 1]
       IN  IF oldVal <= 0
           THEN LET k2 == removeReady(k1, YKCurrentTask)
                    k3 == insertPendSem(k2, YKCurrentTask, s)
                IN  /\ Commit(k3)
                    /\ Schedule(k3, Push(YKCurrentTask, Frame("ret", 0, IFlag)),
                                stack[YKCurrentTask], IFlag)
           ELSE /\ Commit(k1)
                /\ NoSchedule(stack[YKCurrentTask], IFlag)
    /\ UNCHANGED <<numTasksCreated, numSemaphoresCreated, numQueuesCreated,
                   YKTickNum, YKInterruptNestLevel, YKStartedFlag, index,
                   due, qlog,
                   lim, toolVars>>
    /\ slog' = SemLogPend(YKSemaphores[s])

\* YKSemPost that increments the value and readies nobody
SemPost_NoWake(k, s) == [k EXCEPT !.sem[s].value = k.sem[s].value + 1]

\* a binary semaphore: posts do not accumulate
SemPost_Binary(k, s) ==
    LET oldVal == k.sem[s].value
    IN  IF oldVal < 0
        THEN LET r == removePendSem([k EXCEPT !.sem[s].value = oldVal + 1], s)
             IN  insertReady(r[2], r[1])
        ELSE [k EXCEPT !.sem[s].value = 1]

\* YKSemPost that takes its caller out of the ready list
SemPost_RemovesCaller(k, s) ==
    LET oldVal == k.sem[s].value
        k1 == [k EXCEPT !.sem[s].value = oldVal + 1]
    IN  IF oldVal < 0
        THEN LET r == removePendSem(k1, s)
             IN  removeReady(insertReady(r[2], r[1]), YKCurrentTask)
        ELSE removeReady(k1, YKCurrentTask)

\* the body of YKSemPost up to its call of the scheduler
SemPost(k, s) ==
    LET oldVal == k.sem[s].value
        k1 == [k EXCEPT !.sem[s].value = oldVal + 1]
    IN  IF oldVal < 0
        THEN LET r == removePendSem(k1, s)
             IN  insertReady(r[2], r[1])
        ELSE k1

\* YKSemPost called by a task
YKSemPost(s) ==
    /\ InTask(TRUE)
    /\ s <= numSemaphoresCreated
    /\ YKSemaphores[s].value < lim.sem
    /\ LET k1 == SemPost(K, s)
       IN  /\ Commit(k1)
           /\ IF YKSemaphores[s].value < 0 /\ YKInterruptNestLevel = 0
              THEN Schedule(k1, Push(YKCurrentTask, Frame("ret", 0, IFlag)),
                            stack[YKCurrentTask], IFlag)
              ELSE NoSchedule(stack[YKCurrentTask], IFlag)
    /\ UNCHANGED <<numTasksCreated, numSemaphoresCreated, numQueuesCreated,
                   YKTickNum, YKInterruptNestLevel, YKStartedFlag, index,
                   due, qlog,
                   lim, toolVars>>
    /\ slog' = SemLogPost(YKSemaphores[s])

(***************************************************************************)
(* yak_c.c: message queues.                                                *)
(***************************************************************************)
YKQCreate(size) ==
    /\ InMain
    /\ numQueuesCreated = 0
    /\ YKQueues' = [YKQueues EXCEPT
                      ![MsgQ] = YKQ(0, size, 1, 1 + (size - 1), 1, 1, NULL,
                                    YKQueues[MsgQ].buf)]
    /\ numQueuesCreated' = numQueuesCreated + 1
    /\ UNCHANGED <<YKTasks, numTasksCreated, YKCurrentTask, YKReadyHead,
                   YKReadyTail, YKDelayedHead, YKDelayedTail, YKSemaphores,
                   numSemaphoresCreated, YKCtxSwCount, YKTickNum,
                   YKInterruptNestLevel, YKStartedFlag, IFlag, stack, index,
                   due, qlog,
                   lim, toolVars, slog>>

\* nextSlot and nextMsg that stay on the last slot instead of wrapping
Advance_NoWrap(Q, ptr) == IF ptr = Q.end THEN ptr ELSE ptr + 1

\* nextSlot and nextMsg advance, wrapping at the end of the array
Advance(Q, ptr) == IF ptr = Q.end THEN Q.start ELSE ptr + 1

\* YKQPend that returns the message and leaves nextMsg on it
QRead_Peek(k, q) ==
    LET Q == k.que[q]
    IN  <<Q.buf[Q.nextMsg],
          [k EXCEPT !.que[q].numEntries = (Q.numEntries - 1) % WordMod]>>

\* the part of YKQPend that takes the oldest message: <<msg, k>>
QRead(k, q) ==
    LET Q == k.que[q]
    IN  <<Q.buf[Q.nextMsg],
          [k EXCEPT !.que[q].nextMsg = Advance(Q, Q.nextMsg),
                    !.que[q].numEntries = (Q.numEntries - 1) % WordMod]>>

\* YKQPend called by a task.  On an empty queue the task is switched out in
\* the scheduler and reads the message when it runs again (QResume).  The
\* model makes no call on a queue whose occupancy has left 0..maxEntries.
YKQPend(q) ==
    /\ InTask(~lim.idle)
    /\ q <= numQueuesCreated
    /\ YKQueues[q].numEntries <= YKQueues[q].maxEntries
    /\ IF YKQueues[q].numEntries = 0
       THEN LET k1 == removeReady(K, YKCurrentTask)
                k2 == insertPendQ(k1, YKCurrentTask, q)
                blocked == Push(YKCurrentTask, Frame("qread", q, IFlag))
            IN  /\ Commit(k2)
                /\ Schedule(k2, blocked, blocked, 0)
                /\ qlog' = qlog
       ELSE LET r == QRead(K, q)
            IN  /\ Commit(r[2])
                /\ NoSchedule(stack[YKCurrentTask], IFlag)
                /\ qlog' = LogPend(YKQueues[q], r[1])
    /\ UNCHANGED <<numTasksCreated, numSemaphoresCreated, numQueuesCreated,
                   YKTickNum, YKInterruptNestLevel, YKStartedFlag, index, due,
                   lim, toolVars, slog>>

\* YKQPend after its call of the scheduler has returned
QResume ==
    /\ Len(stack[YKCurrentTask]) > 0
    /\ Top(YKCurrentTask).k = "qread"
    /\ LET q == Top(YKCurrentTask).a
           r == QRead(K, q)
       IN  /\ Commit(r[2])
           /\ qlog' = LogPend(YKQueues[q], r[1])
    /\ stack' = [stack EXCEPT ![YKCurrentTask] = Pop(YKCurrentTask)]
    /\ IFlag' = Top(YKCurrentTask).i
    /\ UNCHANGED <<numTasksCreated, YKCurrentTask, numSemaphoresCreated,
                   numQueuesCreated, YKCtxSwCount, YKTickNum,
                   YKInterruptNestLevel, YKStartedFlag, index, due,
                   lim, toolVars, slog>>

\* YKQPost that rejects a message only when numEntries > maxEntries
QPost_Overfill(k, q, msg) ==
    LET Q == k.que[q]
    IN  IF Q.numEntries > Q.maxEntries
        THEN [ret |-> 0, k |-> k]
        ELSE LET k1 == [k EXCEPT
                          !.que[q].buf[Q.nextSlot] = msg,
                          !.que[q].nextSlot = Advance(Q, Q.nextSlot),
                          !.que[q].numEntries = (Q.numEntries + 1) % WordMod]
             IN  IF Q.pendHead # NULL
                 THEN LET r == removePendQ(k1, q)
                      IN  [ret |-> 1, k |-> insertReady(r[2], r[1])]
                 ELSE [ret |-> 1, k |-> k1]

\* the body of YKQPost up to its call of the scheduler: [ret, k]
QPost(k, q, msg) ==
    LET Q == k.que[q]
    IN  IF Q.numEntries >= Q.maxEntries
        THEN [ret |-> 0, k |-> k]
        ELSE LET k1 == [k EXCEPT
                          !.que[q].buf[Q.nextSlot] = msg,
                          !.que[q].nextSlot = Advance(Q, Q.nextSlot),
                          !.que[q].numEntries = (Q.numEntries + 1) % WordMod]
             IN  IF Q.pendHead # NULL
                 THEN LET r == removePendQ(k1, q)
                      IN  [ret |-> 1, k |-> insertReady(r[2], r[1])]
                 ELSE [ret |-> 1, k |-> k1]

\* YKQPost called by a task
YKQPost(q, msg) ==
    /\ InTask(TRUE)
    /\ q <= numQueuesCreated
    /\ LET r == QPost(K, q, msg)
       IN  /\ Commit(r.k)
           /\ qlog' = LogPost(YKQueues[q], msg, r.ret)
           /\ IF /\ r.ret = 1
                 /\ YKQueues[q].pendHead # NULL
                 /\ YKInterruptNestLevel = 0
              THEN Schedule(r.k, Push(YKCurrentTask, Frame("ret", 0, IFlag)),
                            stack[YKCurrentTask], IFlag)
              ELSE NoSchedule(stack[YKCurrentTask], IFlag)
    /\ UNCHANGED <<numTasksCreated, numSemaphoresCreated, numQueuesCreated,
                   YKTickNum, YKInterruptNestLevel, YKStartedFlag, index, due,
                   lim, toolVars, slog>>

(***************************************************************************)
(* Interrupts.  The interrupt service routines are assembly: on entry      *)
(* YKEnterISR, interrupts re-enabled, the C handler, interrupts disabled,  *)
(* YKExitISR, return from interrupt.                                       *)
(***************************************************************************)
\* an interrupt is taken and its ISR runs up to the call of its handler;
\* the processor has disabled interrupts, and the ISR enables them again
\* before the handler (enable = 1) or leaves them disabled (enable = 0)
EnterISR(enable) ==
    /\ IFlag = 1
    /\ YKInterruptNestLevel < lim.nest
    /\ YKInterruptNestLevel' = YKInterruptNestLevel + 1
    /\ stack' = [stack EXCEPT
                   ![YKCurrentTask] = Push(YKCurrentTask, Frame("isr", 0, 0))]
    /\ IFlag' = enable
    /\ UNCHANGED <<YKTasks, numTasksCreated, YKCurrentTask, YKReadyHead,
                   YKReadyTail, YKDelayedHead, YKDelayedTail, YKSemaphores,
                   numSemaphoresCreated, YKQueues, numQueuesCreated,
                   YKCtxSwCount, YKTickNum, YKStartedFlag, index, due, qlog,
                   lim, toolVars, slog>>

\* an ISR that enables interrupts before its handler
YKEnterISR == EnterISR(1)

\* an ISR that calls its handler with interrupts disabled
MaskedISR == EnterISR(0)

\* a tick handler that readies one task per tick at most
UnDelay_Once(k, fuel) ==
    LET r == removeDelayed(k)
    IN  IF r[1] # NULL THEN insertReady(r[2], r[1]) ELSE r[2]

\* the loop of YKTickHandler: ready every task whose delay has expired
RECURSIVE UnDelay(_, _)
UnDelay(k, fuel) ==
    LET r == removeDelayed(k)
    IN  IF fuel > 0 /\ r[1] # NULL
        THEN UnDelay(insertReady(r[2], r[1]), fuel - 1)
        ELSE r[2]

\* the delayed-list part of YKTickHandler
TickDelayed(k) ==
    IF k.dh # NULL
    THEN UnDelay(Wr(k, k.dh, "delayCount", k.tcb[k.dh].delayCount - 1),
                 Cardinality(Ptrs))
    ELSE k

\* n++ for an int n.  The increment of the largest int overflows, which the
\* language leaves undefined: the counter wraps to the smallest int or to
\* zero, or stays where it is
Increment(n) == IF n = IntMax THEN {IntMin, 0, IntMax} ELSE {n + 1}

\* handlers.c: YKTickHandler, called by the tick ISR.  It posts
\* &MsgArray[index] to the application's queue.
YKTickHandler ==
    /\ InIsr
    /\ lim.from <= YKTickNum /\ YKTickNum < lim.tick
    /\ YKTickNum' \in Increment(YKTickNum)
    /\ LET k1 == TickDelayed(K)
           r  == QPost(k1, MsgQ, index + 1)
       IN  /\ Commit(r.k)
           /\ qlog' = LogPost(YKQueues[MsgQ], index + 1, r.ret)
    /\ index' = IF index + 1 >= MsgArraySize THEN 0 ELSE index + 1
    /\ due' = [t \in Ptrs |-> IF due[t] > 0 THEN due[t] - 1 ELSE 0]
    /\ stack' = [stack EXCEPT
                   ![YKCurrentTask] = Replace(YKCurrentTask, Frame("isr", 1, 0))]
    /\ IFlag' = 1
    /\ UNCHANGED <<numTasksCreated, YKCurrentTask, numSemaphoresCreated,
                   numQueuesCreated, YKCtxSwCount, YKInterruptNestLevel,
                   YKStartedFlag,
                   lim, toolVars, slog>>

\* handlers.c: YKKeyHandler sets the application's GlobalFlag inside a
\* mutex and leaves with interrupts enabled
YKKeyHandler ==
    /\ InIsr
    /\ stack' = [stack EXCEPT
                   ![YKCurrentTask] = Replace(YKCurrentTask, Frame("isr", 1, 0))]
    /\ IFlag' = 1
    /\ UNCHANGED <<YKTasks, numTasksCreated, YKCurrentTask, YKReadyHead,
                   YKReadyTail, YKDelayedHead, YKDelayedTail, YKSemaphores,
                   numSemaphoresCreated, YKQueues, numQueuesCreated,
                   YKCtxSwCount, YKTickNum, YKInterruptNestLevel,
                   YKStartedFlag, index, due, qlog,
                   lim, toolVars, slog>>

\* a handler that calls YKSemPost: in an ISR the nesting level is not 0 and
\* YKSemPost does not call the scheduler
IsrSemPost(s) ==
    /\ InIsr
    /\ s <= numSemaphoresCreated
    /\ YKSemaphores[s].value < lim.sem
    /\ Commit(SemPost(K, s))
    /\ stack' = [stack EXCEPT
                   ![YKCurrentTask] = Replace(YKCurrentTask, Frame("isr", 1, 0))]
    /\ UNCHANGED <<numTasksCreated, YKCurrentTask, numSemaphoresCreated,
                   numQueuesCreated, YKCtxSwCount, YKTickNum,
                   YKInterruptNestLevel, YKStartedFlag, IFlag, index, due,
                   qlog,
                   lim, toolVars>>
    /\ slog' = SemLogPost(YKSemaphores[s])

\* YKExitISR that never calls the scheduler
YKExitISR_NoScheduler ==
    /\ Len(stack[YKCurrentTask]) > 0
    /\ Top(YKCurrentTask) = Frame("isr", 1, 0)
    /\ YKInterruptNestLevel' = YKInterruptNestLevel - 1
    /\ NoSchedule(Pop(YKCurrentTask), 1)
    /\ UNCHANGED <<YKTasks, numTasksCreated, YKReadyHead, YKReadyTail,
                   YKDelayedHead, YKDelayedTail, YKSemaphores,
                   numSemaphoresCreated, YKQueues, numQueuesCreated,
                   YKTickNum, YKStartedFlag, index, due, qlog, lim, toolVars,
                   slog>>

\* YKExitISR that calls the scheduler at every nesting level
YKExitISR_AlwaysScheduler ==
    /\ Len(stack[YKCurrentTask]) > 0
    /\ Top(YKCurrentTask) = Frame("isr", 1, 0)
    /\ YKInterruptNestLevel' = YKInterruptNestLevel - 1
    /\ Schedule(K, Replace(YKCurrentTask, Frame("iret", 0, 1)),
                Pop(YKCurrentTask), 1)
    /\ UNCHANGED <<YKTasks, numTasksCreated, YKReadyHead, YKReadyTail,
                   YKDelayedHead, YKDelayedTail, YKSemaphores,
                   numSemaphoresCreated, YKQueues, numQueuesCreated,
                   YKTickNum, YKStartedFlag, index, due, qlog, lim, toolVars,
                   slog>>

\* the end of an ISR: interrupts are disabled and YKExitISR is called; it
\* calls the scheduler when the nesting level is back to 0.  The return from
\* interrupt restores the flags of the interrupted code, which had
\* interrupts enabled.
YKExitISR ==
    /\ Len(stack[YKCurrentTask]) > 0
    /\ Top(YKCurrentTask) = Frame("isr", 1, 0)
    /\ YKInterruptNestLevel' = YKInterruptNestLevel - 1
    /\ IF YKInterruptNestLevel - 1 = 0
       THEN Schedule(K, Replace(YKCurrentTask, Frame("iret", 0, 1)),
                     Pop(YKCurrentTask), 1)
       ELSE NoSchedule(Pop(YKCurrentTask), 1)
    /\ UNCHANGED <<YKTasks, numTasksCreated, YKReadyHead, YKReadyTail,
                   YKDelayedHead, YKDelayedTail, YKSemaphores,
                   numSemaphoresCreated, YKQueues, numQueuesCreated,
                   YKTickNum, YKStartedFlag, index, due, qlog,
                   lim, toolVars, slog>>

\* a context switched out in the scheduler of YKExitISR is running again:
\* the ISR returns from the interrupt
IsrReturn ==
    /\ Len(stack[YKCurrentTask]) > 0
    /\ Top(YKCurrentTask).k = "iret"
    /\ stack' = [stack EXCEPT ![YKCurrentTask] = Pop(YKCurrentTask)]
    /\ IFlag' = 1
    /\ UNCHANGED <<YKTasks, numTasksCreated, YKCurrentTask, YKReadyHead,
                   YKReadyTail, YKDelayedHead, YKDelayedTail, YKSemaphores,
                   numSemaphoresCreated, YKQueues, numQueuesCreated,
                   YKCtxSwCount, YKTickNum, YKInterruptNestLevel,
                   YKStartedFlag, index, due, qlog,
                   lim, toolVars, slog>>

(***************************************************************************)
(* The state after YKInitialize: the idle task is the only ready task, the *)
(* dummy TCB is in the NULL page and is the current task, interrupts are   *)
(* disabled.  Statics are zero.                                            *)
(***************************************************************************)
\* a dummy task with the task ID of the idle task
dummyTask_Idle == TCB(IDLE_TASK_ID, 0, LOWEST_TASK_PRIORITY, NULL, NULL)

\* the dummy TCB: its task ID is the ID of no task
dummyTask == TCB(-1, 0, LOWEST_TASK_PRIORITY, NULL, NULL)

YKInitialize(log) ==
    /\ YKTasks = [p \in Ptrs |->
                    IF p = NULL THEN dummyTask
                    ELSE IF p = IdleTCB
                         THEN TCB(IDLE_TASK_ID, 0, LOWEST_TASK_PRIORITY, NULL, NULL)
                         ELSE TCB(0, 0, 0, NULL, NULL)]
    /\ numTasksCreated = 1
    /\ YKCurrentTask = NULL
    /\ YKReadyHead = IdleTCB
    /\ YKReadyTail = IdleTCB
    /\ YKDelayedHead = NULL
    /\ YKDelayedTail = NULL
    /\ YKSemaphores = [s \in Sems |-> YKSEM(0, NULL)]
    /\ numSemaphoresCreated = 0
    /\ YKQueues = [q \in Queues |->
                     YKQ(0, 0, NULL, NULL, NULL, NULL, NULL,
                         [i \in 1..MaxQSize |-> 0])]
    /\ numQueuesCreated = 0
    /\ YKCtxSwCount = 0
    /\ YKTickNum = 0
    /\ YKInterruptNestLevel = 0
    /\ YKStartedFlag = 0
    /\ IFlag = 0
    /\ stack = [p \in Ptrs |->
                  IF p = NULL THEN <<Frame("main", 0, 0)>>
                  ELSE IF p = IdleTCB THEN <<Frame("task", 0, 0)>>
                       ELSE << >>]
    /\ index = 0
    /\ due = [p \in Ptrs |-> 0]
    /\ qlog = NoLog(log)

\* the limits of a behaviour: context switches performed, depth of interrupt
\* nesting, largest value a semaphore is posted to, values of the tick
\* counter at which a tick is served (from .. tick - 1), whether the
\* blocking primitives are also called with the idle task as current task,
\* and the value below which a semaphore is not pended on
Limits(sw, nest, sem) ==
    [sw |-> sw, nest |-> nest, sem |-> sem, from |-> 0, tick |-> MaxTick,
     idle |-> FALSE, low |-> IntMin]

Init ==
    /\ YKInitialize(FALSE)
    /\ slog = NoSemLog(FALSE)
    /\ multi_check_Start
    /\ lim = Limits(MaxCtxSw, MaxNest, MaxSemValue)

InitLog ==
    /\ YKInitialize(TRUE)
    /\ slog = NoSemLog(FALSE)
    /\ multi_check_Start
    /\ lim = Limits(MaxCtxSw, MaxNest, MaxSemValue)

(***************************************************************************)
(* Every primitive: tasks, delays, semaphores, the queue, interrupts.      *)
(***************************************************************************)
Next ==
    \/ \E p \in MainPriorities : YKNewTask(p)
    \/ \E v \in 0..MaxSemValue : YKSemCreate(v)
    \/ \E size \in 1..MaxQSize : YKQCreate(size)
    \/ YKRun
    \/ YKScheduler
    \/ Return
    \/ \E n \in 1..MaxDelay : YKDelayTask(n)
    \/ \E s \in Sems : YKSemPend(s)
    \/ \E s \in Sems : YKSemPost(s)
    \/ \E q \in Queues : YKQPend(q)
    \/ QResume
    \/ \E q \in Queues, m \in Msgs : YKQPost(q, m)
    \/ YKEnterISR
    \/ YKTickHandler
    \/ YKKeyHandler
    \/ \E s \in Sems : IsrSemPost(s)
    \/ YKExitISR
    \/ IsrReturn

Spec == Init /\ [][Next]_vars

(***************************************************************************)
(* Delays and ticks, with every TCB of the pool in use.                    *)
(***************************************************************************)
NextDelay ==
    \/ \E p \in UserPriorities : InMain /\ YKNewTask(p)
    \/ YKQCreate(MaxQSize)
    \/ YKRun
    \/ YKScheduler
    \/ Return
    \/ \E n \in 1..MaxDelay : YKDelayTask(n)
    \/ YKEnterISR
    \/ YKTickHandler
    \/ YKExitISR
    \/ IsrReturn

SpecDelay == Init /\ [][NextDelay]_vars

(***************************************************************************)
(* The queue, with every TCB of the pool in use and the history kept.      *)
(***************************************************************************)
NextQ ==
    \/ \E p \in UserPriorities : InMain /\ YKNewTask(p)
    \/ \E size \in 1..MaxQSize : YKQCreate(size)
    \/ YKRun
    \/ YKScheduler
    \/ \E q \in Queues : YKQPend(q)
    \/ QResume
    \/ \E q \in Queues, m \in Msgs : YKQPost(q, m)
    \/ Return
    \/ YKEnterISR
    \/ YKTickHandler
    \/ YKExitISR
    \/ IsrReturn

SpecQ == InitLog /\ [][NextQ]_vars

(***************************************************************************)
(* Semaphores, delays and nested interrupts, with every TCB of the pool in *)
(* use.                                                                    *)
(***************************************************************************)
InitSem ==
    /\ YKInitialize(FALSE)
    /\ slog = NoSemLog(FALSE)
    /\ multi_check_Start
    /\ lim = Limits(MoreCtxSw, DeepNest, MaxSemValue)

NextSem ==
    \/ \E p \in UserPriorities : InMain /\ YKNewTask(p)
    \/ YKSemCreate(0)
    \/ YKQCreate(MaxQSize)
    \/ YKRun
    \/ YKScheduler
    \/ Return
    \/ YKDelayTask(1)
    \/ \E s \in Sems : YKSemPend(s)
    \/ \E s \in Sems : YKSemPost(s)
    \/ YKEnterISR
    \/ YKTickHandler
    \/ \E s \in Sems : IsrSemPost(s)
    \/ YKExitISR
    \/ IsrReturn

SpecSem == InitSem /\ [][NextSem]_vars

(***************************************************************************)
(* Pending on the semaphore and on the queue in every order: delays and    *)
(* ticks let a task of higher priority pend after one of lower priority.   *)
(***************************************************************************)
InitPend ==
    /\ YKInitialize(FALSE)
    /\ slog = NoSemLog(FALSE)
    /\ multi_check_Start
    /\ lim = Limits(MoreCtxSw, MaxNest, MaxSemValue)

NextPend ==
    \/ \E p \in UserPriorities : InMain /\ YKNewTask(p)
    \/ YKSemCreate(0)
    \/ YKQCreate(1)
    \/ YKRun
    \/ YKScheduler
    \/ Return
    \/ YKDelayTask(1)
    \/ \E s \in Sems : YKSemPend(s)
    \/ \E s \in Sems : YKSemPost(s)
    \/ \E q \in Queues : YKQPend(q)
    \/ QResume
    \/ \E q \in Queues : YKQPost(q, 1)
    \/ YKEnterISR
    \/ YKTickHandler
    \/ \E s \in Sems : IsrSemPost(s)
    \/ YKExitISR
    \/ IsrReturn

SpecPend == InitPend /\ [][NextPend]_vars

(***************************************************************************)
(* The semaphore as a counter: posts by tasks and in ISRs and pends, with  *)
(* the history of posts and pends kept.                                    *)
(***************************************************************************)
InitCount ==
    /\ YKInitialize(FALSE)
    /\ slog = NoSemLog(TRUE)
    /\ multi_check_Start
    /\ lim = Limits(MaxCtxSw, MaxNest, MaxRun)

NextCount ==
    \/ \E p \in MainPriorities : InMain /\ YKNewTask(p)
    \/ YKSemCreate(0)
    \/ YKQCreate(MaxQSize)
    \/ YKRun
    \/ YKScheduler
    \/ Return
    \/ \E s \in Sems : YKSemPend(s)
    \/ \E s \in Sems : YKSemPost(s)
    \/ YKEnterISR
    \/ \E s \in Sems : IsrSemPost(s)
    \/ YKExitISR
    \/ IsrReturn

SpecCount == InitCount /\ [][NextCount]_vars

(***************************************************************************)
(* The lists as sequences of TCBs, read through the next fields.           *)
(***************************************************************************)
RECURSIVE ListFrom(_, _, _)
ListFrom(tcb, head, fuel) ==
    IF head = NULL \/ fuel = 0 THEN << >>
    ELSE <<head>> \o ListFrom(tcb, tcb[head].next, fuel - 1)

Range(seq) == {seq[i] : i \in 1..Len(seq)}

ReadyList == ListFrom(YKTasks, YKReadyHead, Cardinality(Ptrs))

DelayedList == ListFrom(YKTasks, YKDelayedHead, Cardinality(Ptrs))

SemPendList(s) == ListFrom(YKTasks, YKSemaphores[s].pendHead, Cardinality(Ptrs))

QPendList(q) == ListFrom(YKTasks, YKQueues[q].pendHead, Cardinality(Ptrs))

Created == 1..numTasksCreated

\* the running context is a task in task code, at interrupt nesting level 0
TaskLevel ==
    /\ InTask(FALSE)
    /\ YKInterruptNestLevel = 0

(***************************************************************************)
(* C1. Once YKRun has dispatched, whenever task code runs outside every    *)
(* kernel primitive at interrupt nesting level 0, the current task is the  *)
(* head of the ready list and no ready task has a smaller priority number. *)
(***************************************************************************)
C1_CurrentIsReadyHead ==
    TaskLevel =>
        /\ YKCurrentTask = YKReadyHead
        /\ \A t \in Range(ReadyList) :
              YKTasks[YKCurrentTask].priority <= YKTasks[t].priority

\* a user task runs again after an ISR readied it and preempted another
C1_Witness ==
    /\ TaskLevel
    /\ YKTasks[YKCurrentTask].taskID # IDLE_TASK_ID
    /\ Len(ReadyList) = 3
    /\ YKTickNum >= 1
    /\ YKCtxSwCount >= 3

(***************************************************************************)
(* C2. Every TCB is linked into at most one of the ready list, the delayed *)
(* list, a semaphore's pending list and a queue's pending list.            *)
(***************************************************************************)
Count(b) == IF b THEN 1 ELSE 0

ListsHolding(t) ==
    Count(t \in Range(ReadyList))
    + Count(t \in Range(DelayedList))
    + Cardinality({s \in Sems : t \in Range(SemPendList(s))})
    + Cardinality({q \in Queues : t \in Range(QPendList(q))})

C2_AtMostOneList == \A t \in Created : ListsHolding(t) <= 1

\* one task is delayed while another pends on the semaphore
C2_Witness ==
    /\ DelayedList # << >>
    /\ \E s \in Sems : SemPendList(s) # << >>
    /\ YKTickNum >= 1

(***************************************************************************)
(* C3. The delay counts of the delayed list, summed from the head up to    *)
(* and including a task, are the ticks left of that task's delay; a task   *)
(* is in the delayed list as long as ticks are left of its delay and in    *)
(* the ready list from the tick that ends it.                              *)
(***************************************************************************)
RECURSIVE DeltaSum(_, _)
DeltaSum(seq, n) ==
    IF n = 0 THEN 0 ELSE DeltaSum(seq, n - 1) + YKTasks[seq[n]].delayCount

C3_DeltaSums ==
    /\ \A i \in 1..Len(DelayedList) :
          DeltaSum(DelayedList, i) = due[DelayedList[i]]
    /\ \A t \in Created \ {IdleTCB} :
          IF due[t] > 0 THEN t \in Range(DelayedList)
                        ELSE t \in Range(ReadyList)

\* delays 2, 1, 3 made in that order (by falling priority, no tick between
\* them) gave the deltas (1, 1, 1)
C3_Witness ==
    /\ YKTickNum = 0
    /\ Len(DelayedList) = 3
    /\ [i \in 1..3 |-> YKTasks[DelayedList[i]].delayCount] = <<1, 1, 1>>
    /\ [i \in 1..3 |-> due[DelayedList[i]]] = <<1, 2, 3>>
    /\ YKTasks[DelayedList[2]].priority < YKTasks[DelayedList[1]].priority
    /\ YKTasks[DelayedList[1]].priority < YKTasks[DelayedList[3]].priority

(***************************************************************************)
(* C4. For every semaphore, value + (number of pending tasks) >= 0, and a  *)
(* negative value is minus the number of pending tasks.                    *)
(***************************************************************************)
C4_SemaphoreCount ==
    \A s \in 1..numSemaphoresCreated :
        /\ YKSemaphores[s].value + Len(SemPendList(s)) >= 0
        /\ YKSemaphores[s].value < 0 =>
              Len(SemPendList(s)) = -YKSemaphores[s].value

\* two tasks pend on the semaphore, after the semaphore was posted to
C4_Witness ==
    \E s \in 1..numSemaphoresCreated :
        /\ YKSemaphores[s].value = -2
        /\ Len(SemPendList(s)) = 2
        /\ YKCtxSwCount >= 4

(***************************************************************************)
(* C5. For every queue, 0 <= numEntries <= maxEntries in every state.      *)
(***************************************************************************)
C5_OccupancyInRange ==
    \A q \in 1..numQueuesCreated :
        /\ 0 <= YKQueues[q].numEntries
        /\ YKQueues[q].numEntries <= YKQueues[q].maxEntries

(***************************************************************************)
(* C6. Whenever a task that blocked in YKQPend on an empty queue runs      *)
(* again, the queue holds a message for it: numEntries > 0.                *)
(***************************************************************************)
C6_MessageForResumedWaiter ==
    /\ (Len(stack[YKCurrentTask]) > 0 /\ Top(YKCurrentTask).k = "qread") =>
          YKQueues[Top(YKCurrentTask).a].numEntries > 0
    /\ (qlog.on /\ qlog.op = "pend") => qlog.fresh

(***************************************************************************)
(* C7. Between two kernel primitive calls, a queue that holds a message    *)
(* has no task in its pending list.                                        *)
(***************************************************************************)
C7_NoWaiterWhileOccupied ==
    TaskLevel =>
        \A q \in 1..numQueuesCreated :
            YKQueues[q].numEntries > 0 => YKQueues[q].pendHead = NULL

(***************************************************************************)
(* The queue read by a single task, the first user task created.           *)
(***************************************************************************)
Consumer == IdleTCB + 1

NextFifo ==
    \/ \E p \in UserPriorities : InMain /\ YKNewTask(p)
    \/ \E size \in 1..MaxQSize : YKQCreate(size)
    \/ YKRun
    \/ YKScheduler
    \/ \E q \in Queues : YKCurrentTask = Consumer /\ YKQPend(q)
    \/ QResume
    \/ \E q \in Queues, m \in Msgs : YKQPost(q, m)
    \/ Return
    \/ YKEnterISR
    \/ YKTickHandler
    \/ YKExitISR
    \/ IsrReturn

SpecFifo == InitLog /\ [][NextFifo]_vars

(***************************************************************************)
(* C8. With a single consuming task, every message YKQPend returns is the  *)
(* oldest message YKQPost accepted and YKQPend has not returned: the       *)
(* messages come out in the order they went in, also across the wrap of    *)
(* nextSlot and nextMsg.                                                   *)
(***************************************************************************)
C8_FifoOrder ==
    qlog.op = "pend" => (qlog.exp # 0 /\ qlog.msg = qlog.exp)

\* a message was read from the last slot of a two-slot array after nextSlot
\* had wrapped, and another message is waiting
C8_Witness ==
    /\ qlog.op = "pend"
    /\ YKQueues[MsgQ].maxEntries = 2
    /\ YKQueues[MsgQ].nextMsg = YKQueues[MsgQ].start
    /\ YKQueues[MsgQ].nextSlot = YKQueues[MsgQ].end
    /\ YKQueues[MsgQ].numEntries = 1
    /\ YKTickNum >= 2

(***************************************************************************)
(* C9. YKQPost on a full queue returns 0 and changes nothing: not the      *)
(* queue (occupancy, nextSlot, nextMsg, buffer, pending list), not the     *)
(* lists, not the current task, not the context-switch counter; the caller *)
(* goes on in task code.  The post of the tick handler on a full queue     *)
(* returns 0 and changes neither the queue nor the current task.           *)
(***************************************************************************)
C9_FullPostRejected ==
    /\ [][\A q \in Queues, m \in Msgs :
          (YKQPost(q, m) /\ YKQueues[q].numEntries = YKQueues[q].maxEntries) =>
              /\ qlog'.op = "post"
              /\ qlog'.ret = 0
              /\ UNCHANGED <<YKQueues, YKTasks, YKReadyHead, YKReadyTail,
                             YKDelayedHead, YKDelayedTail, YKCurrentTask,
                             YKCtxSwCount, stack, IFlag>>]_vars
    /\ [][(YKTickHandler /\ YKQueues[MsgQ].numEntries = YKQueues[MsgQ].maxEntries) =>
              /\ qlog'.op = "post"
              /\ qlog'.ret = 0
              /\ UNCHANGED <<YKQueues, YKCurrentTask, YKCtxSwCount>>]_vars

\* a task's post was rejected: no tick was served, so the task filled the
\* queue itself
C9_Witness ==
    /\ qlog.op = "post"
    /\ qlog.ret = 0
    /\ qlog.occ = 2
    /\ YKTickNum = 0
    /\ TaskLevel

(***************************************************************************)
(* C10. Round trip.  A post accepted on an empty queue without waiter,     *)
(* followed by a pend, gives the pend the posted message and leaves the    *)
(* queue empty.  A pend on a full queue followed by an accepted post       *)
(* leaves the occupancy as it was before the pend.                         *)
(***************************************************************************)
C10_RoundTrip ==
    [][/\ ( /\ qlog.op = "post" /\ qlog.ret = 1
            /\ qlog.occ = 0 /\ ~qlog.wait
            /\ qlog'.op = "pend" ) =>
              /\ qlog'.msg = qlog.msg
              /\ YKQueues'[MsgQ].numEntries = 0
       /\ ( /\ qlog.op = "pend"
            /\ qlog.occ = YKQueues[MsgQ].maxEntries
            /\ qlog'.op = "post" /\ qlog'.ret = 1 ) =>
              YKQueues'[MsgQ].numEntries = qlog.occ]_vars

\* a pend on a full two-slot queue was followed by an accepted post
C10_Witness ==
    /\ qlog.op = "post"
    /\ qlog.ret = 1
    /\ qlog.pop = "pend"
    /\ qlog.pocc = 2
    /\ YKQueues[MsgQ].maxEntries = 2
    /\ YKQueues[MsgQ].numEntries = 2

(***************************************************************************)
(* C11. A post (by a task or in an ISR) on a semaphore with value >= 0 and *)
(* no pending task adds 1 to the value and readies nobody: the lists, the  *)
(* current task and the context-switch counter stay.  A pend on a          *)
(* semaphore with value > 0 subtracts 1 and returns to the caller without  *)
(* blocking and without context switch.                                    *)
(***************************************************************************)
C11_PostsAccumulate ==
    [][\A s \in Sems :
          /\ ( /\ YKSemPost(s) \/ IsrSemPost(s)
               /\ YKSemaphores[s].value >= 0
               /\ YKSemaphores[s].pendHead = NULL ) =>
                 /\ YKSemaphores'[s].value = YKSemaphores[s].value + 1
                 /\ YKSemaphores'[s].pendHead = NULL
                 /\ UNCHANGED <<YKTasks, YKReadyHead, YKReadyTail,
                                YKDelayedHead, YKDelayedTail, YKCurrentTask,
                                YKCtxSwCount>>
          /\ (YKSemPend(s) /\ YKSemaphores[s].value > 0) =>
                 /\ YKSemaphores'[s].value = YKSemaphores[s].value - 1
                 /\ YKSemaphores'[s].pendHead = NULL
                 /\ UNCHANGED <<YKTasks, YKReadyHead, YKReadyTail,
                                YKDelayedHead, YKDelayedTail, YKCurrentTask,
                                YKCtxSwCount, stack, IFlag>>]_vars

\* three posts in ISRs on the semaphore created with 0 were followed by
\* three pends of the task dispatched first, and the value is 0 again
C11_Witness ==
    /\ slog.posts = 3
    /\ slog.isr = 3
    /\ slog.pends = 3
    /\ YKSemaphores[1].value = 0
    /\ YKCtxSwCount = 1
    /\ TaskLevel

(***************************************************************************)
(* C12. A post in an ISR on a semaphore of value -1 (one task L blocked in *)
(* YKSemPend on value 0) puts L in the ready list and leaves the value 0,  *)
(* without switching.  No task leaves the ready list while an ISR runs.    *)
(* When YKExitISR brings the nesting level to 0, every ready task is still *)
(* ready, the semaphores are unchanged and the ready-list head (L, if no   *)
(* task of higher priority is ready) is the running task.                  *)
(***************************************************************************)
C12_IsrPostWakesWaiter ==
    /\ [][\A s \in Sems :
             ( /\ IsrSemPost(s)
               /\ YKSemaphores[s].value = -1
               /\ Len(SemPendList(s)) = 1 ) =>
                 /\ SemPendList(s)[1] \in Range(ReadyList)'
                 /\ YKSemaphores'[s] = YKSEM(0, NULL)
                 /\ UNCHANGED <<YKCurrentTask, YKCtxSwCount>>]_vars
    /\ [][YKInterruptNestLevel > 0 =>
              Range(ReadyList) \subseteq Range(ReadyList)']_vars
    /\ [][(YKExitISR /\ YKInterruptNestLevel' = 0) =>
              /\ YKCurrentTask' = YKReadyHead
              /\ UNCHANGED YKSemaphores]_vars

\* no tick was served and a task that was switched out in the scheduler of
\* a primitive runs, while another context is switched out in YKExitISR:
\* the task had blocked in YKSemPend and the post of the ISR readied it
C12_Witness ==
    /\ YKTickNum = 0
    /\ YKInterruptNestLevel = 0
    /\ Len(stack[YKCurrentTask]) > 0
    /\ Top(YKCurrentTask).k = "ret"
    /\ \E t \in Created : Len(stack[t]) > 0 /\ Top(t).k = "iret"
    /\ YKSemaphores[1].value = 0
    /\ YKSemaphores[1].pendHead = NULL

(***************************************************************************)
(* C13. Every pending list is in ascending order of priority number.  A    *)
(* post on a semaphore or on a queue with waiting tasks takes the head of  *)
(* the pending list, and nothing else, out of the list and puts it in the  *)
(* ready list; besides it only tasks whose delay expires become ready.     *)
(***************************************************************************)
Ascending(list) ==
    \A i \in 1..(Len(list) - 1) :
        YKTasks[list[i]].priority < YKTasks[list[i + 1]].priority

\* the step took exactly the head of `list' out of it, to the ready list
WakesHead(list, listAfter, readyAfter) ==
    /\ listAfter = Tail(list)
    /\ Head(list) \in Range(readyAfter)
    /\ Range(readyAfter) \ Range(ReadyList) \subseteq
           {Head(list)} \cup Range(DelayedList)

C13_PostWakesHeadOfPending ==
    /\ [](/\ \A s \in Sems : Ascending(SemPendList(s))
          /\ \A q \in Queues : Ascending(QPendList(q)))
    /\ [][\A s \in Sems :
             ( /\ YKSemPost(s) \/ IsrSemPost(s)
               /\ SemPendList(s) # << >> ) =>
                 WakesHead(SemPendList(s), SemPendList(s)', ReadyList')]_vars
    /\ [][\A q \in Queues :
             ( /\ YKTickHandler \/ \E m \in Msgs : YKQPost(q, m)
               /\ QPendList(q) # << >> ) =>
                 WakesHead(QPendList(q), QPendList(q)', ReadyList')]_vars

(***************************************************************************)
(* C14. When YKExitISR brings the interrupt nesting level to 0, the task   *)
(* that runs next is the head of the ready list and no ready task has a    *)
(* smaller priority number: a task of higher priority that the ISR readied *)
(* preempts the interrupted task.                                          *)
(***************************************************************************)
C14_HighestReadyRunsAfterExitISR ==
    [][(YKExitISR /\ YKInterruptNestLevel' = 0) =>
          /\ YKCurrentTask' = YKReadyHead'
          /\ \A t \in Range(ReadyList)' :
                YKTasks'[YKCurrentTask'].priority <= YKTasks'[t].priority]_vars

\* a user task was preempted at the exit of an ISR that served a tick: it
\* is switched out in YKExitISR and a task of higher priority runs
C14_Witness ==
    /\ YKInterruptNestLevel = 0
    /\ YKTickNum >= 1
    /\ \E t \in Created :
          /\ YKTasks[t].taskID # IDLE_TASK_ID
          /\ Len(stack[t]) > 0
          /\ Top(t).k = "iret"
          /\ t \in Range(ReadyList)
          /\ YKTasks[YKCurrentTask].priority < YKTasks[t].priority

C16_ReadyListAscending == Ascending(ReadyList)

\* a task that was switched out in a blocking call is back in the ready
\* list between two user tasks, and all the tasks are ready
C16_Witness ==
    /\ Len(ReadyList) = NumUserTasks + 1
    /\ YKTickNum >= 1
    /\ \E t \in Range(ReadyList) :
          /\ t # YKCurrentTask
          /\ Top(t).k \in {"ret", "qread"}
          /\ YKTasks[t].prev # NULL
          /\ YKTasks[YKTasks[t].next].taskID # IDLE_TASK_ID

(***************************************************************************)
(* C17. In every state the ready list is not empty and holds the idle      *)
(* task, and the idle task is not in the delayed list.                     *)
(***************************************************************************)
C17_IdleTaskAlwaysReady ==
    /\ ReadyList # << >>
    /\ IdleTCB \in Range(ReadyList)
    /\ IdleTCB \notin Range(DelayedList)

\* every user task is delayed or pending, and the idle task, the only
\* ready task, runs
C17_Witness ==
    /\ numTasksCreated > MainTasks
    /\ YKCurrentTask = IdleTCB
    /\ ReadyList = <<IdleTCB>>
    /\ DelayedList # << >>
    /\ YKTickNum >= 1

(***************************************************************************)
(* The priority preemption scenario: main() creates the tasks A and B, of  *)
(* the priorities PrioA and PrioB, and the queue, and calls YKRun; A calls *)
(* YKDelayTask(MaxDelay) once, in its first run, and B calls no primitive; *)
(* ticks come at any time.                                                 *)
(***************************************************************************)

\* the TCBs of A and of B
TasksOf(prio) == {t \in Created : YKTasks[t].priority = prio}

\* B has not run: its context is the one YKNewTask built
NeverRan(t) == stack[t] = <<Frame("task", 0, 0)>>

\* A is in its first run as long as B has not run
DelayOnce ==
    /\ YKTasks[YKCurrentTask].priority = PrioA
    /\ \A b \in TasksOf(PrioB) : NeverRan(b)
    /\ YKDelayTask(MaxDelay)

NextPreempt ==
    \/ \E p \in {PrioA, PrioB} : InMain /\ YKNewTask(p)
    \/ YKQCreate(MaxQSize)
    \/ TasksOf(PrioA) # {} /\ TasksOf(PrioB) # {} /\ YKRun
    \/ YKScheduler
    \/ Return
    \/ DelayOnce
    \/ YKEnterISR
    \/ YKTickHandler
    \/ YKExitISR
    \/ IsrReturn

SpecPreempt == Init /\ [][NextPreempt]_vars

(***************************************************************************)
(* C18. In the scenario the context-switch counter counts three switches   *)
(* from YKRun on: it is 1 while A is in its first run (the dispatch from   *)
(* the dummy task), 2 while A is delayed and B is the current task (the    *)
(* switch from A to B in the scheduler YKDelayTask calls), and 3 once A,   *)
(* ready after MaxDelay ticks, has preempted B at the exit of the ISR.     *)
(***************************************************************************)
C18_PreemptionSwitchesThrice ==
    \A a \in TasksOf(PrioA), b \in TasksOf(PrioB) :
        /\ (YKCurrentTask = a /\ NeverRan(b)) => YKCtxSwCount = 1
        /\ (YKCurrentTask = b /\ a \in Range(DelayedList)) => YKCtxSwCount = 2
        /\ (YKCurrentTask = a /\ ~NeverRan(b)) =>
              /\ YKCtxSwCount = 3
              /\ YKTickNum >= MaxDelay
              /\ YKReadyHead = a

\* the count of the scenario as two switches: once A has preempted B the
\* counter is 2
C18_PreemptionSwitchesTwice ==
    \A a \in TasksOf(PrioA), b \in TasksOf(PrioB) :
        (YKCurrentTask = a /\ ~NeverRan(b)) => YKCtxSwCount = 2

\* A is back in its task code after its delay, B is switched out in the
\* scheduler that YKExitISR called
C18_Witness ==
    \E a \in TasksOf(PrioA), b \in TasksOf(PrioB) :
        /\ YKCurrentTask = a
        /\ Top(a).k = "task"
        /\ Top(b).k = "iret"
        /\ YKTickNum = MaxDelay
        /\ YKDelayedHead = NULL
        /\ YKCtxSwCount = 3

(***************************************************************************)
(* Tasks that call YKDelayTask with the count 0 as well.  The parameter is *)
(* unsigned: a count below 0 does not exist.                               *)
(***************************************************************************)
NextZero ==
    \/ \E p \in MainPriorities : InMain /\ YKNewTask(p)
    \/ YKQCreate(MaxQSize)
    \/ YKRun
    \/ YKScheduler
    \/ Return
    \/ \E count \in 0..1 : YKDelayTask(count)
    \/ YKEnterISR
    \/ YKTickHandler
    \/ YKExitISR
    \/ IsrReturn

SpecZero == Init /\ [][NextZero]_vars

(***************************************************************************)
(* C19. YKDelayTask called with the count 0 skips the operation: the       *)
(* calling task stays in the ready list as the current task, and the ready *)
(* list, the delayed list and every delay count are unchanged.             *)
(***************************************************************************)
C19_DelayZeroSkips ==
    [][YKDelayTask(0) =>
          /\ YKCurrentTask' = YKCurrentTask
          /\ YKCurrentTask \in Range(ReadyList)'
          /\ ReadyList' = ReadyList
          /\ DelayedList' = DelayedList
          /\ \A t \in TCBs : YKTasks'[t].delayCount = YKTasks[t].delayCount]_vars

(***************************************************************************)
(* An application whose main() gives tasks a priority that another task    *)
(* has already.                                                            *)
(***************************************************************************)
NextEqual ==
    \/ \E p \in MainPriorities : InMain /\ NewTask(p)
    \/ YKQCreate(MaxQSize)
    \/ YKRun
    \/ YKScheduler
    \/ Return
    \/ YKDelayTask(1)
    \/ YKEnterISR
    \/ YKTickHandler
    \/ YKExitISR
    \/ IsrReturn

SpecEqual == Init /\ [][NextEqual]_vars

ReadyPriorities == {YKTasks[t].priority : t \in Range(ReadyList)}

(***************************************************************************)
(* C20. The insertion in the ready list of a task whose priority a task of *)
(* the ready list has already does not link the task: the list and the     *)
(* links of its tasks are unchanged, and the ready list never holds two    *)
(* tasks of equal priority.                                                *)
(***************************************************************************)
C20_EqualPriorityNotLinked ==
    /\ [](\A i, j \in 1..Len(ReadyList) :
             i # j => YKTasks[ReadyList[i]].priority # YKTasks[ReadyList[j]].priority)
    /\ [][\A p \in ReadyPriorities :
             NewTask(p) =>
                 /\ ReadyList' = ReadyList
                 /\ \A t \in Range(ReadyList) :
                        /\ YKTasks'[t].next = YKTasks[t].next
                        /\ YKTasks'[t].prev = YKTasks[t].prev]_vars

(***************************************************************************)
(* Tasks that open critical sections of their own and call the primitives  *)
(* inside and outside them, with ISRs that call their handlers with        *)
(* interrupts enabled or disabled.                                         *)
(***************************************************************************)
NextMutex ==
    \/ \E p \in MainPriorities : YKNewTask(p)
    \/ YKSemCreate(0)
    \/ YKQCreate(MaxQSize)
    \/ YKRun
    \/ YKScheduler
    \/ Return
    \/ YKEnterMutex
    \/ YKExitMutex
    \/ YKDelayTask(1)
    \/ \E s \in Sems : YKSemPend(s)
    \/ \E s \in Sems : YKSemPost(s)
    \/ \E q \in Queues : YKQPend(q)
    \/ QResume
    \/ \E q \in Queues, m \in Msgs : YKQPost(q, m)
    \/ YKEnterISR
    \/ MaskedISR
    \/ YKTickHandler
    \/ YKKeyHandler
    \/ YKExitISR
    \/ IsrReturn

InitMutex ==
    /\ YKInitialize(FALSE)
    /\ slog = NoSemLog(FALSE)
    /\ multi_check_Start
    /\ lim = Limits(FewCtxSw, MaxNest, MaxSemValue)

SpecMutex == InitMutex /\ [][NextMutex]_vars

\* a step in which the running context calls an entry point of the kernel
\* from task code or from main()
EntryPointCall ==
    \/ \E p \in MainPriorities : YKNewTask(p)
    \/ YKSemCreate(0)
    \/ YKQCreate(MaxQSize)
    \/ YKDelayTask(1)
    \/ \E s \in Sems : YKSemPend(s) \/ YKSemPost(s)
    \/ \E q \in Queues : YKQPend(q)
    \/ \E q \in Queues, m \in Msgs : YKQPost(q, m)

\* the primitive, or the scheduler it has called, is done in this step with
\* the interrupt status of its entry, or the context is switched out and the
\* status of the entry is the one its frame restores
KeepsStatus ==
    IF YKCurrentTask' = YKCurrentTask
    THEN IFlag' = IFlag
    ELSE stack'[YKCurrentTask][Len(stack'[YKCurrentTask])].i = IFlag

\* the entry points called by tasks and main() leave the interrupt status
\* as it was on entry
TaskCallsRestore ==
    /\ [][(EntryPointCall \/ YKScheduler) => KeepsStatus]_vars
    /\ [][(Return \/ QResume) => IFlag' = Top(YKCurrentTask).i]_vars

(***************************************************************************)
(* C21. Every entry point of the kernel leaves the interrupt status of its *)
(* caller as it was on entry, whether interrupts were enabled or disabled: *)
(* the primitives called by tasks and main(), the scheduler, and the tick  *)
(* handler called by the ISR.                                              *)
(***************************************************************************)
C21_InterruptStatusRestored ==
    /\ TaskCallsRestore
    /\ [][YKTickHandler => IFlag' = IFlag]_vars

(***************************************************************************)
(* Tasks that open critical sections around nothing, inside one another or *)
(* not, and delay themselves; an ISR whose handler is a critical section   *)
(* around an assignment to a variable of the application.                  *)
(***************************************************************************)
NextPair ==
    \/ \E p \in MainPriorities : InMain /\ YKNewTask(p)
    \/ YKQCreate(MaxQSize)
    \/ YKRun
    \/ YKScheduler
    \/ Return
    \/ YKEnterMutex
    \/ YKExitMutex
    \/ MutexPair
    \/ YKDelayTask(1)
    \/ YKEnterISR
    \/ MaskedISR
    \/ YKTickHandler
    \/ YKKeyHandler
    \/ YKExitISR
    \/ IsrReturn

SpecPair == InitMutex /\ [][NextPair]_vars

\* what the kernel keeps: tasks and lists, semaphores, queues, counters and
\* the current task
kernelState ==
    <<YKTasks, numTasksCreated, YKCurrentTask, YKReadyHead, YKReadyTail,
      YKDelayedHead, YKDelayedTail, YKSemaphores, numSemaphoresCreated,
      YKQueues, numQueuesCreated, YKCtxSwCount, YKTickNum,
      YKInterruptNestLevel, YKStartedFlag>>

(***************************************************************************)
(* C22. A pair of YKEnterMutex and YKExitMutex around nothing, in task     *)
(* code, or around the assignment of the application's flag in             *)
(* YKKeyHandler, changes nothing of the kernel state and leaves the        *)
(* interrupt status as it was before the pair, also when interrupts were   *)
(* disabled before it.                                                     *)
(***************************************************************************)
C22_MutexPairKeepsState ==
    [][(MutexPair \/ YKKeyHandler) =>
          /\ IFlag' = IFlag
          /\ UNCHANGED kernelState]_vars

(***************************************************************************)
(* C23. The task ID of the dummy TCB is the ID of no task of the ready     *)
(* list, and the scheduler called by YKRun, the dummy TCB being the        *)
(* current task, increments the context-switch counter and dispatches the  *)
(* head of the ready list, whatever tasks main() has created.              *)
(***************************************************************************)
C23_FirstScheduleSwitches ==
    /\ [](\A t \in Range(ReadyList) : YKTasks[t].taskID # YKTasks[NULL].taskID)
    /\ [][(YKScheduler /\ YKCurrentTask = NULL) =>
              /\ YKCtxSwCount' = YKCtxSwCount + 1
              /\ YKCurrentTask' = YKReadyHead
              /\ YKCurrentTask' # NULL]_vars

\* main() is switched out in the scheduler YKRun called, after it created
\* every task; the head of the ready list runs
C23_Witness ==
    /\ numTasksCreated = NumUserTasks + 1
    /\ Top(NULL).k = "ret"
    /\ YKCtxSwCount = 1
    /\ YKCurrentTask = YKReadyHead
    /\ YKCurrentTask # NULL

(***************************************************************************)
(* C24. YKRun does not return: the context of main() is never past the     *)
(* call of the scheduler in YKRun, and from the first dispatch on the      *)
(* dummy TCB is neither the current task nor the head of the ready list,   *)
(* the context of main() staying switched out where it was.                *)
(***************************************************************************)
C24_RunNeverReturns ==
    /\ stack[NULL] # << >>
    /\ YKCtxSwCount >= 1 =>
          /\ YKCurrentTask # NULL
          /\ YKReadyHead # NULL
          /\ Top(NULL).k \in {"ret", "iret"}

\* every user task is pending or delayed after several context switches,
\* and the task that runs is the idle task, not the dummy
C24_Witness ==
    /\ numTasksCreated = NumUserTasks + 1
    /\ YKCtxSwCount >= NumUserTasks + 1
    /\ ReadyList = <<IdleTCB>>
    /\ YKCurrentTask = IdleTCB
    /\ Top(NULL).k = "ret"

(***************************************************************************)
(* Tasks created by main() and by tasks, of a higher or a lower priority   *)
(* than their creator.                                                     *)
(***************************************************************************)
NextCreate ==
    \/ \E p \in UserPriorities : YKNewTask(p)
    \/ YKQCreate(MaxQSize)
    \/ YKRun
    \/ YKScheduler
    \/ Return
    \/ YKDelayTask(1)
    \/ YKEnterISR
    \/ YKTickHandler
    \/ YKExitISR
    \/ IsrReturn

SpecCreate == Init /\ [][NextCreate]_vars

(***************************************************************************)
(* C25. YKNewTask called by a task with a priority number below the        *)
(* caller's puts the new task at the head of the ready list and goes on to *)
(* the scheduler; no task is in its task code while a task that has not    *)
(* run yet has a smaller priority number, so the new task runs before      *)
(* YKNewTask returns to its caller.  YKNewTask called before YKRun puts    *)
(* the task in the ready list and returns to main(): the scheduler is not  *)
(* called, the context-switch counter and the current task are unchanged.  *)
(***************************************************************************)
C25_NewTaskPreemptsCreator ==
    /\ [][\A p \in UserPriorities :
             (YKNewTask(p) /\ YKStartedFlag = 1
                 /\ p < YKTasks[YKCurrentTask].priority) =>
                 /\ YKReadyHead' = numTasksCreated + 1
                 /\ YKTasks'[YKReadyHead'].priority = p
                 /\ stack'[YKCurrentTask] =
                        Push(YKCurrentTask, Frame("sched", 0, 0))]_vars
    /\ [](TaskLevel /\ Top(YKCurrentTask).k = "task" =>
             \A n \in Created \ {YKCurrentTask} :
                 NeverRan(n) =>
                     YKTasks[n].priority > YKTasks[YKCurrentTask].priority)
    /\ [][\A p \in UserPriorities :
             (YKNewTask(p) /\ YKStartedFlag = 0) =>
                 /\ (numTasksCreated + 1) \in Range(ReadyList)'
                 /\ stack'[NULL] = stack[NULL]
                 /\ UNCHANGED <<YKCtxSwCount, YKCurrentTask>>]_vars

\* a task created a task of a smaller priority number, which runs; the
\* creator is switched out in the scheduler that YKNewTask called
C25_Witness ==
    \E c \in Created :
        /\ YKCurrentTask = numTasksCreated
        /\ NeverRan(YKCurrentTask)
        /\ c # YKCurrentTask
        /\ c # IdleTCB
        /\ YKTasks[YKCurrentTask].priority < YKTasks[c].priority
        /\ Len(stack[c]) = 2
        /\ Top(c).k = "ret"
        /\ c \in Range(ReadyList)
        /\ YKTickNum = 0

(***************************************************************************)
(* C26. YKSemPost and YKQPost called by a task leave their caller in the   *)
(* ready list and put it in neither the delayed list nor a pending list,   *)
(* whether the caller goes on running or the task it made ready preempts   *)
(* it.                                                                     *)
(***************************************************************************)
C26_PostNeverBlocks ==
    [][( \/ \E s \in Sems : YKSemPost(s)
         \/ \E q \in Queues, m \in Msgs : YKQPost(q, m) ) =>
           /\ YKCurrentTask \in Range(ReadyList)'
           /\ YKCurrentTask \notin Range(DelayedList)'
           /\ \A s \in Sems : YKCurrentTask \notin Range(SemPendList(s))'
           /\ \A q \in Queues : YKCurrentTask \notin Range(QPendList(q))'
           /\ ListsHolding(YKCurrentTask)' = 1]_vars

\* a task posted and the task it made ready has preempted it: the poster
\* is ready, switched out in the scheduler its post called, and the only
\* other task that ran is the one dispatched
C26_Witness ==
    \E waiter, poster \in Created :
        /\ YKCurrentTask = waiter
        /\ Top(waiter).k \in {"ret", "qread"}
        /\ poster # waiter
        /\ poster \in Range(ReadyList)
        /\ stack[poster] = <<Frame("task", 0, 0), Frame("ret", 0, 1)>>
        /\ \A x \in Created \ {waiter, poster} : NeverRan(x)
        /\ Top(NULL).k = "ret"

(***************************************************************************)
(* The kernel in service for a long time.  IdleSince(n) is the state after *)
(* n ticks of an application that created its queue, of MaxQSize entries,  *)
(* and no task: the idle task runs, the queue has been full since tick     *)
(* MaxQSize.  The behaviours start LateTicks ticks before the tick counter *)
(* is at the largest int.                                                  *)
(***************************************************************************)
IdleSince(n) ==
    /\ YKTasks = [p \in Ptrs |->
                    IF p = NULL THEN dummyTask
                    ELSE IF p = IdleTCB
                         THEN TCB(IDLE_TASK_ID, 0, LOWEST_TASK_PRIORITY, NULL, NULL)
                         ELSE TCB(0, 0, 0, NULL, NULL)]
    /\ numTasksCreated = 1
    /\ YKCurrentTask = IdleTCB
    /\ YKReadyHead = IdleTCB
    /\ YKReadyTail = IdleTCB
    /\ YKDelayedHead = NULL
    /\ YKDelayedTail = NULL
    /\ YKSemaphores = [s \in Sems |-> YKSEM(0, NULL)]
    /\ numSemaphoresCreated = 0
    /\ YKQueues = [q \in Queues |->
                     YKQ(MaxQSize, MaxQSize, 1, MaxQSize, 1, 1, NULL,
                         [i \in 1..MaxQSize |-> ((i - 1) % MsgArraySize) + 1])]
    /\ numQueuesCreated = 1
    /\ YKCtxSwCount = 1
    /\ YKTickNum = n
    /\ YKInterruptNestLevel = 0
    /\ YKStartedFlag = 1
    /\ IFlag = 1
    /\ stack = [p \in Ptrs |->
                  IF p = NULL THEN <<Frame("ret", 0, 1)>>
                  ELSE IF p = IdleTCB THEN <<Frame("task", 0, 0)>>
                       ELSE << >>]
    /\ index = n % MsgArraySize
    /\ due = [p \in Ptrs |-> 0]
    /\ qlog = NoLog(FALSE)
    /\ slog = NoSemLog(FALSE)
    /\ multi_check_Start

InitLate ==
    /\ IdleSince(IntMax - LateTicks)
    /\ lim = [Limits(MaxCtxSw, MaxNest, MaxSemValue) EXCEPT
                 !.from = IntMax - LateTicks, !.tick = IntMax + 1]

NextLate ==
    \/ YKEnterISR
    \/ YKTickHandler
    \/ YKKeyHandler
    \/ YKExitISR

SpecLate == InitLate /\ [][NextLate]_vars

(***************************************************************************)
(* C27. The tick counter is changed by the tick handler only, which adds   *)
(* one to it as to an unsigned value of 16 bits; it is never negative.     *)
(***************************************************************************)
C27_TickCounterUnsigned ==
    /\ [](YKTickNum >= 0)
    /\ [][YKTickHandler => YKTickNum' = (YKTickNum + 1) % WordMod]_vars
    /\ [][YKTickNum' # YKTickNum => YKTickHandler]_vars

\* a step that ends in a call of YKScheduler: the call that ends YKRun,
\* YKNewTask and YKDelayTask, the call of YKExitISR at nesting level 0, of
\* a pend that waits and of a post that readied a task
SchedulerCalled ==
    \/ YKScheduler
    \/ YKExitISR /\ YKInterruptNestLevel' = 0
    \/ \E s \in Sems : YKSemPend(s) /\ YKSemaphores[s].value <= 0
    \/ \E s \in Sems : YKSemPost(s) /\ YKSemaphores[s].value < 0
    \/ \E q \in Queues : YKQPend(q) /\ YKQueues[q].numEntries = 0
    \/ \E q \in Queues, m \in Msgs :
          /\ YKQPost(q, m)
          /\ YKQueues[q].numEntries < YKQueues[q].maxEntries
          /\ YKQueues[q].pendHead # NULL

(***************************************************************************)
(* C28. A call of the scheduler increments the context-switch counter and  *)
(* dispatches the head of the ready list if and only if the head is not    *)
(* the current task; the scheduler called at the end of YKRun, YKNewTask   *)
(* or YKDelayTask changes no kernel state otherwise.  The counter counts   *)
(* the dispatches: a step changes the current task, to the head of the     *)
(* ready list, if and only if it adds one to the counter, and nothing else *)
(* changes the counter.                                                    *)
(***************************************************************************)
C28_CounterCountsDispatches ==
    /\ [][SchedulerCalled =>
              (YKReadyHead' # YKCurrentTask <=>
                  /\ YKCtxSwCount' = YKCtxSwCount + 1
                  /\ YKCurrentTask' = YKReadyHead'
                  /\ YKCurrentTask' # YKCurrentTask)]_vars
    /\ [][(YKScheduler /\ YKReadyHead = YKCurrentTask) =>
              UNCHANGED kernelState]_vars
    /\ [][(YKCurrentTask' # YKCurrentTask <=>
              YKCtxSwCount' = YKCtxSwCount + 1)
           /\ (YKCtxSwCount' = YKCtxSwCount
                  \/ YKCtxSwCount' = YKCtxSwCount + 1)]_vars

\* the scheduler has dispatched the first task from main(), and YKExitISR
\* has called it after a tick with that task still the head of the ready
\* list: the task runs on and the counter is 1
C28_Witness ==
    /\ YKCtxSwCount = 1
    /\ Top(NULL).k = "ret"
    /\ numTasksCreated > 1
    /\ YKTickNum >= 1
    /\ YKInterruptNestLevel = 0
    /\ YKCurrentTask = YKReadyHead
    /\ stack[YKCurrentTask] = <<Frame("task", 0, 0)>>

(***************************************************************************)
(* C29. The tasks calling YKDelayTask with counts of 1 and more: in every  *)
(* state, the tick handler being one step, the delay counts of the delayed *)
(* list are not negative and the count of the head is positive; the count  *)
(* of a task behind the head is zero exactly when the task wakes on the    *)
(* same tick as the task before it.                                        *)
(***************************************************************************)
C29_DelayCountsOfDeltaList ==
    \A i \in 1..Len(DelayedList) :
        LET t == DelayedList[i]
        IN  /\ YKTasks[t].delayCount >= 0
            /\ i = 1 => YKTasks[t].delayCount > 0
            /\ i > 1 => (YKTasks[t].delayCount = 0
                            <=> due[t] = due[DelayedList[i - 1]])

\* no delay count of the delayed list is zero in a state between the
\* steps of the kernel
C29_ZeroOnlyTransient ==
    \A t \in Range(DelayedList) : YKTasks[t].delayCount > 0

\* after a tick, three tasks are delayed and the second wakes on the same
\* tick as the head: its delay count is zero
C29_Witness ==
    /\ YKTickNum >= 1
    /\ Len(DelayedList) = 3
    /\ YKTasks[DelayedList[1]].delayCount > 0
    /\ YKTasks[DelayedList[2]].delayCount = 0
    /\ YKTasks[DelayedList[3]].delayCount > 0
    /\ due[DelayedList[2]] = due[DelayedList[1]]

(***************************************************************************)
(* The state of a task read from the lists: DELAYED in the delayed list,   *)
(* PENDING in the pending list of a semaphore or of a queue, READY in the  *)
(* ready list, RUNNING when it is YKCurrentTask at task level.             *)
(***************************************************************************)
Delayed(t) == t \in Range(DelayedList)

PendingSem(t, s) == t \in Range(SemPendList(s))

PendingQ(t, q) == t \in Range(QPendList(q))

Ready(t) == t \in Range(ReadyList)

Running(t) == t = YKCurrentTask /\ InTask(TRUE) /\ Ready(t)

(***************************************************************************)
(* C30. The transitions of a task: it enters the delayed list only from    *)
(* running, in its own YKDelayTask; it enters the pending list of a        *)
(* semaphore or of a queue only from running, in its own YKSemPend on a    *)
(* value of zero or less or its own YKQPend on an empty queue; it leaves   *)
(* the delayed list only to the ready list, in YKTickHandler; it leaves a  *)
(* pending list only to the ready list, in a post to that semaphore or     *)
(* that queue; and in every state it is in one of the lists.               *)
(***************************************************************************)
C30_TaskStateMachine ==
    /\ [](\A t \in Created : ListsHolding(t) = 1)
    /\ [][\A t \in Created :
            /\ (~Delayed(t) /\ Delayed(t)') =>
                   Running(t) /\ (\E n \in 0..MaxDelay : YKDelayTask(n))
            /\ \A s \in Sems :
                   (~PendingSem(t, s) /\ PendingSem(t, s)') =>
                       /\ Running(t)
                       /\ YKSemaphores[s].value <= 0
                       /\ YKSemPend(s)
            /\ \A q \in Queues :
                   (~PendingQ(t, q) /\ PendingQ(t, q)') =>
                       /\ Running(t)
                       /\ YKQueues[q].numEntries = 0
                       /\ YKQPend(q)
            /\ (Delayed(t) /\ ~Delayed(t)') =>
                   Ready(t)' /\ YKTickHandler
            /\ \A s \in Sems :
                   (PendingSem(t, s) /\ ~PendingSem(t, s)') =>
                       Ready(t)' /\ (YKSemPost(s) \/ IsrSemPost(s))
            /\ \A q \in Queues :
                   (PendingQ(t, q) /\ ~PendingQ(t, q)') =>
                       /\ Ready(t)'
                       /\ \/ \E m \in Msgs : YKQPost(q, m)
                          \/ q = MsgQ /\ YKTickHandler]_vars

\* one task is delayed by its own YKDelayTask, one pends on a semaphore,
\* and one that pended on the empty queue is ready again, made ready by the
\* post of the tick handler and not yet resumed
C30_Witness ==
    /\ YKTickNum >= 1
    /\ \E a, b, c \in Created \ {NULL} :
           /\ Delayed(a)
           /\ \E s \in Sems : PendingSem(b, s)
           /\ Ready(c) /\ Top(c).k = "qread" /\ c # YKCurrentTask

(***************************************************************************)
(* The blocking primitives called with the idle task as current task, as   *)
(* well as by the user tasks.                                              *)
(***************************************************************************)
InitIdle ==
    /\ YKInitialize(FALSE)
    /\ slog = NoSemLog(FALSE)
    /\ multi_check_Start
    /\ lim = [Limits(FewCtxSw, MaxNest, MaxSemValue) EXCEPT
                 !.idle = TRUE, !.low = -MaxSemValue]

NextIdle ==
    \/ \E p \in MainPriorities : InMain /\ YKNewTask(p)
    \/ YKSemCreate(0)
    \/ YKQCreate(1)
    \/ YKRun
    \/ YKScheduler
    \/ Return
    \/ YKDelayTask(1)
    \/ \E s \in Sems : YKSemPend(s)
    \/ \E s \in Sems : YKSemPost(s)
    \/ \E q \in Queues : YKQPend(q)
    \/ QResume
    \/ \E q \in Queues : YKQPost(q, 1)

SpecIdle == InitIdle /\ [][NextIdle]_vars

\* the current task is the idle task, in its task code
IdleCalls == InTask(FALSE) /\ YKTasks[YKCurrentTask].taskID = IDLE_TASK_ID

\* the idle task is in the ready list and in no other list
IdleReadyOnly ==
    /\ Ready(IdleTCB)
    /\ ~Delayed(IdleTCB)
    /\ \A s \in Sems : ~PendingSem(IdleTCB, s)
    /\ \A q \in Queues : ~PendingQ(IdleTCB, q)

(***************************************************************************)
(* C31. YKDelayTask, YKSemPend on a semaphore of value zero or less and    *)
(* YKQPend on an empty queue, called with the idle task as current task,   *)
(* leave the idle task in the ready list and put it in neither the delayed *)
(* list nor a pending list.                                                *)
(***************************************************************************)
C31_IdleNeverDelayedOrPended ==
    [][( /\ IdleCalls
         /\ IdleReadyOnly
         /\ \/ \E n \in 0..MaxDelay : YKDelayTask(n)
            \/ \E s \in Sems : YKSemaphores[s].value <= 0 /\ YKSemPend(s)
            \/ \E q \in Queues : YKQueues[q].numEntries = 0 /\ YKQPend(q) )
        => IdleReadyOnly']_vars

(***************************************************************************)
(* C32. Removing the only element of a list: removeDelayed on a delayed    *)
(* list of one task whose count the tick handler has decremented to zero,  *)
(* and removePendSem and removePendQ on a pending list of one task, return *)
(* that task and leave the list empty, and write through no NULL pointer.  *)
(***************************************************************************)
C32_RemoveOnlyElementSafe ==
    /\ (Len(DelayedList) = 1 /\ YKTasks[YKDelayedHead].delayCount = 1) =>
           LET k1 == Wr(K, YKDelayedHead, "delayCount",
                        YKTasks[YKDelayedHead].delayCount - 1)
               r  == removeDelayed(k1)
           IN  r[1] = YKDelayedHead /\ r[2].dh = NULL /\ r[2].nw = 0
    /\ \A s \in Sems : Len(SemPendList(s)) = 1 =>
           LET r == removePendSem(K, s)
           IN  /\ r[1] = YKSemaphores[s].pendHead
               /\ r[2].sem[s].pendHead = NULL
               /\ r[2].nw = 0
    /\ \A q \in Queues : Len(QPendList(q)) = 1 =>
           LET r == removePendQ(K, q)
           IN  /\ r[1] = YKQueues[q].pendHead
               /\ r[2].que[q].pendHead = NULL
               /\ r[2].nw = 0

(***************************************************************************)
(* A list read from head through the next fields is a well-formed doubly   *)
(* linked list: it ends in NULL without visiting a TCB twice, the prev of  *)
(* its head is NULL and the prev of every other element is the element     *)
(* before it.                                                              *)
(***************************************************************************)
Last(seq) == seq[Len(seq)]

WellFormed(head) ==
    LET list == ListFrom(YKTasks, head, Cardinality(Ptrs))
    IN  /\ \A i, j \in 1..Len(list) : list[i] = list[j] => i = j
        /\ list # << >> =>
               /\ YKTasks[list[1]].prev = NULL
               /\ YKTasks[Last(list)].next = NULL
        /\ \A i \in 1..(Len(list) - 1) : YKTasks[list[i + 1]].prev = list[i]

yakVars == <<YKTasks, numTasksCreated, YKCurrentTask, YKReadyHead, YKReadyTail,
             YKDelayedHead, YKDelayedTail, YKSemaphores, numSemaphoresCreated,
             YKQueues, numQueuesCreated, YKCtxSwCount, YKTickNum,
             YKInterruptNestLevel, YKStartedFlag, IFlag, stack, index, due,
             qlog, slog, lim>>

\* thread t goes from one place to another
Goto(t, to) == pc' = [pc EXCEPT ![t] = to]

\* pthread_mutex_lock(&mutex) by thread t at `from'
Lock(t, from, to) ==
    /\ pc[t] = from
    /\ mutex = Unlocked
    /\ mutex' = t
    /\ Goto(t, to)
    /\ UNCHANGED <<node_buf, next_node, next_post, terminate, cv, node, taken,
                   yakVars>>

\* main: readdir returns an entry, for which a node is made and passed to
\* post_node, or NULL at the end of the directory
ReadDir ==
    /\ pc[MainThread] = "readdir"
    /\ \/ /\ node[MainThread] < MaxFiles
          /\ node' = [node EXCEPT ![MainThread] = @ + 1]
          /\ Goto(MainThread, "post_node")
       \/ /\ node' = node
          /\ Goto(MainThread, "set_terminate")
    /\ UNCHANGED <<node_buf, next_node, next_post, terminate, mutex, cv, taken,
                   yakVars>>

\* the body of post_node(n) with the lock held: a slot that is not NULL
\* only prints "node buffer full!", the slot is overwritten
post_node(n, to) ==
    /\ node_buf' = [node_buf EXCEPT ![next_post] = n]
    /\ next_post' = (next_post + 1) % N_BUF
    /\ cv' = {}
    /\ mutex' = Unlocked
    /\ Goto(MainThread, to)
    /\ UNCHANGED <<next_node, terminate, node, taken, yakVars>>

PostNode ==
    /\ pc[MainThread] = "posting"
    /\ mutex = MainThread
    /\ post_node(node[MainThread], "readdir")

\* main, after the loop: terminate = 1 with the lock held
SetTerminate ==
    /\ pc[MainThread] = "terminating"
    /\ mutex = MainThread
    /\ terminate' = 1
    /\ mutex' = Unlocked
    /\ Goto(MainThread, "post_null")
    /\ UNCHANGED <<node_buf, next_node, next_post, cv, node, taken, yakVars>>

\* main: post_node(NULL), to unblock the workers
PostNull ==
    /\ pc[MainThread] = "posting_null"
    /\ mutex = MainThread
    /\ post_node(NULL, "join")

\* main: pthread_join of every worker
Join ==
    /\ pc[MainThread] = "join"
    /\ \A w \in Workers : pc[w] = "done"
    /\ Goto(MainThread, "done")
    /\ UNCHANGED <<node_buf, next_node, next_post, terminate, mutex, cv, node,
                   taken, yakVars>>

MainStep ==
    \/ ReadDir
    \/ Lock(MainThread, "post_node", "posting")
    \/ PostNode
    \/ Lock(MainThread, "set_terminate", "terminating")
    \/ SetTerminate
    \/ Lock(MainThread, "post_null", "posting_null")
    \/ PostNull
    \/ Join

\* get_node with the lock held, at the test of its loop: the node of slot
\* next_node is taken, or NULL is returned when terminate is set, or the
\* worker waits on the condition variable, which releases the lock
get_node(w) ==
    /\ pc[w] = "wait_loop"
    /\ mutex = w
    /\ mutex' = Unlocked
    /\ IF node_buf[next_node] # NULL
       THEN /\ node' = [node EXCEPT ![w] = node_buf[next_node]]
            /\ taken' = [taken EXCEPT ![node_buf[next_node]] = Append(@, w)]
            /\ node_buf' = [node_buf EXCEPT ![next_node] = NULL]
            /\ next_node' = (next_node + 1) % N_BUF
            /\ Goto(w, "crc")
            /\ UNCHANGED cv
       ELSE IF terminate # 0
       THEN /\ node' = [node EXCEPT ![w] = NULL]
            /\ Goto(w, "exit")
            /\ UNCHANGED <<node_buf, next_node, cv, taken>>
       ELSE /\ cv' = cv \cup {w}
            /\ Goto(w, "cond_wait")
            /\ UNCHANGED <<node_buf, next_node, node, taken>>
    /\ UNCHANGED <<next_post, terminate, yakVars>>

\* pthread_cond_wait returns after the broadcast of post_node, once the
\* lock is taken again
Wake(w) ==
    /\ w \notin cv
    /\ Lock(w, "cond_wait", "wait_loop")

\* pthread_cond_wait may also return with no broadcast
SpuriousWakeup(w) ==
    /\ pc[w] = "cond_wait"
    /\ w \in cv
    /\ cv' = cv \ {w}
    /\ UNCHANGED <<node_buf, next_node, next_post, terminate, mutex, pc, node,
                   taken, yakVars>>

\* worker_func: the crc of the node is computed and the loop goes on
ComputeCrc(w) ==
    /\ pc[w] = "crc"
    /\ Goto(w, "get_node")
    /\ UNCHANGED <<node_buf, next_node, next_post, terminate, mutex, cv, node,
                   taken, yakVars>>

\* worker_func: get_node returned NULL, break and pthread_exit
WorkerExit(w) ==
    /\ pc[w] = "exit"
    /\ Goto(w, "done")
    /\ UNCHANGED <<node_buf, next_node, next_post, terminate, mutex, cv, node,
                   taken, yakVars>>

WorkerStep(w) ==
    \/ Lock(w, "get_node", "wait_loop")
    \/ get_node(w)
    \/ Wake(w)
    \/ ComputeCrc(w)
    \/ WorkerExit(w)

NextTool ==
    \/ MainStep
    \/ \E w \in Workers : WorkerStep(w)
    \/ \E w \in Workers : SpuriousWakeup(w)

SpecTool == Init /\ [][NextTool]_vars

\* every thread that can take a step takes one; a thread that asks for the
\* lock again and again gets it
SpecToolFair ==
    /\ SpecTool
    /\ WF_vars(MainStep)
    /\ \A w \in Workers : SF_vars(WorkerStep(w))

\* the nodes the main thread has passed to post_node
PostedNodes ==
    IF pc[MainThread] \in {"post_node", "posting"}
    THEN 1..(node[MainThread] - 1)
    ELSE 1..node[MainThread]

\* the nodes in the slots of node_buf
Buffered == {node_buf[i] : i \in Slots} \ {NULL}

(***************************************************************************)
(* C34. Every node passed to post_node is returned by get_node once, to    *)
(* one worker: no node is returned twice, a posted node that no worker has *)
(* taken yet is in node_buf, and when the main thread is done every posted *)
(* node has been returned.                                                 *)
(***************************************************************************)
C34_EachNodeTakenOnce ==
    /\ \A n \in Nodes : Len(taken[n]) <= 1
    /\ \A n \in PostedNodes : taken[n] = << >> => n \in Buffered
    /\ pc[MainThread] = "done" => \A n \in PostedNodes : Len(taken[n]) = 1

(***************************************************************************)
(* C35. After the main thread has set terminate and called                 *)
(* post_node(NULL), every worker returns from get_node with NULL and       *)
(* exits; and no worker exits while a posted node is in node_buf.          *)
(***************************************************************************)
C35_WorkersExitWhenBufferEmpty ==
    /\ (pc[MainThread] = "join") ~> (\A w \in Workers : pc[w] = "done")
    /\ [](\A w \in Workers : pc[w] \in {"exit", "done"} => Buffered = {})

=============================================================================
